---- MODULE Spec2Model ----
(***************************************************************************)
(* State-machine model of one plenum Node (server/node.py) with its        *)
(* Propagator/Requests registry (server/propagator.py) and of the          *)
(* TransactionStore (common/transaction_store.py).                         *)
(*                                                                         *)
(* Spec     : REQUEST and PROPAGATE deliveries and the servicing of the    *)
(*            replica queues (request registry and forwarding).            *)
(* SpecExec : REQUEST, PROPAGATE and Ordered (execution, ledger, replies). *)
(* SpecTS   : the TransactionStore driven by append calls.                 *)
(*                                                                         *)
(* Strings that the code concatenates are sequences of characters, so that *)
(* "{}{}".format(identifier, reqId) is computed, not assumed injective.    *)
(* SHA-256 is a tagged tuple around its input (injective on the input).    *)
(***************************************************************************)
EXTENDS Integers, Sequences, FiniteSets, TLC

VARIABLES
    totalNodes,         \* Node.totalNodes = len(nodeReg)
    f,                  \* Node.f
    requests,           \* Propagator.requests : key -> ReqState
    msgsToReplicas,     \* Node.msgsToReplicas : one deque per replica
    replicaInBox,       \* replicas[idx].inBox, filled by serviceReplicaMsgs
    clientIdentifiers,  \* Node.clientIdentifiers : identifier -> client name
    ledger,             \* Node.primaryStorage : the sequence of records
    clientOut,          \* transmitToClient calls made by the last handler
    nodeOut,            \* send calls (broadcasts) made by the last handler
    monitorOut,         \* Monitor calls made by the last handler
    raised,             \* exception the last handler ended with, or None
    handled,            \* the last handler invoked and its arguments
    propagatedBy,       \* history: <<node, digest>> for every PROPAGATE the
                        \* node received from a peer or broadcast itself
    viewNo,             \* Node.viewNo
    instanceChanges,    \* Node.instanceChanges : viewNo -> set of voters
    nodeBlacklist,      \* Node.nodeBlacklister : the blacklisted node names
    actionQueue,        \* HasActionQueue.actionQueue : the scheduled actions
    suspicionOut,       \* reportSuspiciousNode calls made by the last handler
    electorOut,         \* elector calls made by the last handler
    returned,           \* <<value>> the last handler returned, <<>> for None
    status,             \* Motor.status
    elector,            \* Node.elector : the primary decider, or None
    nodeInBox,          \* Node.nodeInBox : validated <<msg, frm>> of peers
    clientInBox,        \* Node.clientInBox : validated <<msg, frm>> of clients
    clientBlacklist,    \* Node.clientBlacklister : blacklisted client names
    replicaOutBox,      \* replicas[idx].outBox, read by serviceReplicaOutBox
    processedRequests,  \* TransactionStore.processedRequests
    transactions,       \* TransactionStore.transactions
    responses,          \* TransactionStore.responses
    firstAppended,      \* history: first reply appended per key with a txnId
    running,            \* TransactionStore.running
    getsCounter,        \* TransactionStore.getsCounter
    got,                \* <<result>> of the get just made on the store, or <<>>
    stopOut,            \* what the last TransactionStore.stop call gave
    called,             \* the last TransactionStore call and its arguments
    faulty,             \* the Byzantine nodes of the pool
    sentMsgs,           \* three-phase messages the correct replicas sent
    prePrepared,        \* per replica: digest of the PRE-PREPARE it accepted
    prepares,           \* per replica: senders of the matching PREPAREs
    commits,            \* per replica: senders of the matching COMMITs
    emitted,            \* per replica: digest of the Ordered it emitted
    suspected           \* <<replica, peer>> suspicions the replicas raised

nodeVars == <<totalNodes, f, requests, msgsToReplicas, replicaInBox,
              clientIdentifiers, ledger, clientOut, nodeOut, monitorOut,
              raised, handled, propagatedBy, viewNo, instanceChanges,
              nodeBlacklist, actionQueue, suspicionOut, electorOut, returned,
              status, elector, nodeInBox, clientInBox, clientBlacklist,
              replicaOutBox>>
storeVars == <<processedRequests, transactions, responses, firstAppended,
               running, getsCounter, got, stopOut, called>>
clusterVars == <<faulty, sentMsgs, prePrepared, prepares, commits, emitted,
                 suspected>>
vars == <<totalNodes, f, requests, msgsToReplicas, replicaInBox,
          clientIdentifiers, ledger, clientOut, nodeOut, monitorOut,
          raised, handled, propagatedBy, viewNo, instanceChanges,
          nodeBlacklist, actionQueue, suspicionOut, electorOut, returned,
          status, elector, nodeInBox, clientInBox, clientBlacklist,
          replicaOutBox,
          processedRequests, transactions, responses, firstAppended,
          running, getsCounter, got, stopOut, called,
          faulty, sentMsgs, prePrepared, prepares, commits, emitted,
          suspected>>

\* ------------------------------------------------------------------ bounds
\* longest ledger the model lets the node build
MaxLedger == 2
\* highest view number an InstanceChange from a peer carries
MaxView == 1
\* longest replica queue that sendToReplica is let to build
MaxQueue == 2
\* most messages the node inbox holds when another one is taken in
MaxInBox == 2
\* most messages the replicas are let to have in their outBoxes
MaxOutBox == 2

\* --------------------------------------------------------------- constants
\* Python's None, in the shape of the value it stands in for
None == "None"
NoResult == [op |-> "None"]
NoTxnId == <<"None">>
KeyError == "KeyError"
RuntimeError == "RuntimeError"
IndexError == "IndexError"
\* the primary decider that newPrimaryDecider builds
PrimaryElector == "PrimaryElector"

\* the node under study and the full registry it can be built with
name == "Alpha"
AllNodeNames == <<"Alpha", "Beta", "Gamma", "Delta">>
\* pool sizes the node is constructed with (f = 0 and f = 1)
PoolSizes == {3, 4}

Clients == {"cli1", "cli2"}

\* identifiers are strings, i.e. sequences of characters
IdA == <<"a">>
IdA1 == <<"a", "1">>

OpBuy == [type |-> "buy"]
OpSell == [type |-> "sell"]

Request(identifier, reqId, operation) ==
    [identifier |-> identifier, reqId |-> reqId, operation |-> operation]

\* the client requests that are delivered to the node: two bodies under the
\* key (a, 11) and one request under the key (a1, 1)
ReqSet == {Request(IdA, 11, OpBuy), Request(IdA, 11, OpSell),
           Request(IdA1, 1, OpBuy)}

PpTimes == {1, 2}

\* the instance whose Ordered are executed (Instances.masterId)
masterId == 0

\* ----------------------------------------------------------- pure helpers
Min(a, b) == IF a < b THEN a ELSE b

Digit(d) == CASE d = 0 -> "0" [] d = 1 -> "1" [] d = 2 -> "2" [] d = 3 -> "3"
              [] d = 4 -> "4" [] d = 5 -> "5" [] d = 6 -> "6" [] d = 7 -> "7"
              [] d = 8 -> "8" [] d = 9 -> "9"

\* str(n) for a non-negative integer, as "{}".format(n) renders it
RECURSIVE DecStr(_)
DecStr(n) == IF n < 10 THEN <<Digit(n)>>
             ELSE DecStr(n \div 10) \o <<Digit(n % 10)>>

sha256(s) == <<"sha256", s>>

\* Request.key
key(req) == <<req.identifier, req.reqId>>

\* Request.reqDigest
reqDigest(req) == sha256(<<req.identifier, req.reqId, req.operation>>)

getMaxFailures(nodeCount) == IF nodeCount >= 1 THEN (nodeCount - 1) \div 3
                             ELSE 0

nodeReg(n) == {AllNodeNames[i] : i \in 1..n}

\* ---------------------------------------------------- Requests (registry)
ReqState(request) ==
    [request |-> request, forwarded |-> FALSE, propagates |-> {}]

\* variant: the registry entry is replaced by every add
add_overwrite(reqs, req) ==
    (key(req) :> ReqState(req)) @@ reqs

add(reqs, req) ==
    IF key(req) \in DOMAIN reqs THEN reqs
    ELSE reqs @@ (key(req) :> ReqState(req))

flagAsForwarded(reqs, req) ==
    [reqs EXCEPT ![key(req)].forwarded = TRUE]

addPropagate(reqs, req, sender) ==
    LET data == add(reqs, req)
    IN [data EXCEPT ![key(req)].propagates = @ \cup {sender}]

votes(reqs, req) ==
    IF <<req.identifier, req.reqId>> \in DOMAIN reqs
    THEN Cardinality(reqs[<<req.identifier, req.reqId>>].propagates)
    ELSE 0

\* The result of a call that may raise: the value returned, or the exception
Returned(v) == [value |-> v, raised |-> None]
Raised(e) == [value |-> FALSE, raised |-> e]

\* variant: the forwarded flag is not consulted
Requests_canForward_ignoreFlag(reqs, req, requiredVotes) ==
    Returned(votes(reqs, req) = requiredVotes)

\* `and` short-circuits: self[req.key] is read only when the votes match
Requests_canForward(reqs, req, requiredVotes) ==
    IF votes(reqs, req) # requiredVotes THEN Returned(FALSE)
    ELSE IF key(req) \notin DOMAIN reqs THEN Raised(KeyError)
    ELSE Returned(~reqs[key(req)].forwarded)

hasPropagated(reqs, req, sender) ==
    key(req) \in DOMAIN reqs /\ sender \in reqs[key(req)].propagates

\* ---------------------------------------------------------------- messages
Propagate(request, senderClient) ==
    [op |-> "PROPAGATE", request |-> request, senderClient |-> senderClient]

\* reqId of a message that has none (msg.get(f.REQ_ID.nm) is None)
NoReqId == <<>>

RequestNack(reqId, reason) ==
    [op |-> "REQNACK", reqId |-> reqId, reason |-> reason]

RequestAck(reqId) == [op |-> "REQACK", reqId |-> reqId]

Reply(result) == [op |-> "REPLY", result |-> result]

\* PrePrepare, Prepare and Commit, by their op tag; only instId is read by
\* the node
ThreePhaseOps == {"PREPREPARE", "PREPARE", "COMMIT"}

ThreePhase(op, instId) == [op |-> op, instId |-> instId]

Batch(messages) == [op |-> "BATCH", messages |-> messages]

InstanceChange(v) == [op |-> "INSTANCE_CHANGE", viewNo |-> v]

Ordered(instId, v, identifier, reqId, digest, ppTime) ==
    [instId |-> instId, viewNo |-> v, identifier |-> identifier,
     reqId |-> reqId, digest |-> digest, ppTime |-> ppTime]

\* ------------------------------------------------- the node's mutable state
\* The handlers are sequential code; each operator below takes the node's
\* state as a record and returns the state after the call.
Cur == [requests |-> requests, msgsToReplicas |-> msgsToReplicas,
        clientIdentifiers |-> clientIdentifiers, ledger |-> ledger,
        clientOut |-> <<>>, nodeOut |-> <<>>, monitorOut |-> <<>>,
        raised |-> None, f |-> f, propagatedBy |-> propagatedBy,
        viewNo |-> viewNo, instanceChanges |-> instanceChanges,
        nodeBlacklist |-> nodeBlacklist, actionQueue |-> actionQueue,
        suspicionOut |-> <<>>, electorOut |-> <<>>, returned |-> <<>>,
        status |-> status, elector |-> elector, nodeInBox |-> nodeInBox,
        clientInBox |-> clientInBox, clientBlacklist |-> clientBlacklist,
        replicaOutBox |-> replicaOutBox]

transmitToClient(st, msg, remoteName) ==
    [st EXCEPT !.clientOut = Append(@, [to |-> remoteName, msg |-> msg])]

send(st, msg) ==
    [st EXCEPT !.nodeOut = Append(@, msg),
               !.propagatedBy =
                   IF msg.op = "PROPAGATE"
                   THEN @ \cup {<<name, reqDigest(msg.request)>>} ELSE @]

\* ----------------------------------------------------------------- Propagator
createPropagate(request, clientName) == Propagate(request, clientName)

\* variant: the PROPAGATE is broadcast whether or not it was before
propagate_again(st, request, clientName) ==
    send([st EXCEPT !.requests = addPropagate(@, request, name)],
         createPropagate(request, clientName))

propagate(st, request, clientName) ==
    IF hasPropagated(st.requests, request, name) THEN st
    ELSE send([st EXCEPT !.requests = addPropagate(@, request, name)],
              createPropagate(request, clientName))

canForward(st, request) ==
    Requests_canForward(st.requests, request, st.f + 1)

\* variant: the request is not flagged as forwarded
forward_noFlag(st, request) ==
    [st EXCEPT
        !.msgsToReplicas =
            [i \in DOMAIN @ |-> Append(@[i], reqDigest(request))],
        !.monitorOut =
            Append(@, [call |-> "requestUnOrdered", key |-> key(request)])]

forward(st, request) ==
    [st EXCEPT
        !.msgsToReplicas =
            [i \in DOMAIN @ |-> Append(@[i], reqDigest(request))],
        !.monitorOut =
            Append(@, [call |-> "requestUnOrdered", key |-> key(request)]),
        !.requests = flagAsForwarded(@, request)]

tryForwarding(st, request) ==
    LET can == canForward(st, request)
    IN IF can.raised # None THEN [st EXCEPT !.raised = can.raised]
       ELSE IF can.value THEN forward(st, request)
       ELSE st

\* recordAndPropagate up to its call of tryForwarding
recorded(st, request, clientName) ==
    LET s1 == [st EXCEPT !.requests = add(@, request)]
    IN propagate(s1, request, clientName)

recordAndPropagate(st, request, clientName) ==
    tryForwarding(recorded(st, request, clientName), request)

\* ------------------------------------------------------------------ storage
\* Ledger.append: the record gets the next sequence number; the returned
\* Merkle proof is represented by the sequence number it is a proof for.
ledgerAppend(lg, result) ==
    [ledger |-> Append(lg, result @@ [seqNo |-> Len(lg) + 1]),
     merkleProof |-> [seqNo |-> Len(lg) + 1]]

\* SecondaryStorage.getReply reads the primary storage: the record stored
\* for (identifier, reqId), or None
getReply(lg, identifier, reqId) ==
    LET hits == {i \in 1..Len(lg) :
                    lg[i].identifier = identifier /\ lg[i].reqId = reqId}
    IN IF hits = {} THEN NoResult
       ELSE lg[CHOOSE i \in hits : \A j \in hits : i <= j]

getReplyFor(st, request) ==
    LET result == getReply(st.ledger, request.identifier, request.reqId)
    IN IF result # NoResult THEN Reply(result) ELSE NoResult

txnIdOf(identifier, reqId) == sha256(identifier \o DecStr(reqId))

\* generateReply: returns the state after the append and the Reply
generateReply(st, ppTime, req) ==
    LET txnId == txnIdOf(req.identifier, req.reqId)
        result == [identifier |-> req.identifier, reqId |-> req.reqId,
                   txnId |-> txnId, txnTime |-> ppTime,
                   txnType |-> req.operation.type]
        appended == ledgerAppend(st.ledger, result)
    IN [st |-> [st EXCEPT !.ledger = appended.ledger],
        reply |-> Reply(result @@ appended.merkleProof)]

doCustomAction(st, ppTime, req) ==
    LET g == generateReply(st, ppTime, req)
    IN IF req.identifier \in DOMAIN g.st.clientIdentifiers
       THEN transmitToClient(g.st, g.reply,
                             g.st.clientIdentifiers[req.identifier])
       ELSE [g.st EXCEPT !.raised = KeyError]

executeRequest(st, ppTime, req) == doCustomAction(st, ppTime, req)

\* -------------------------------------------------------------- node handlers
Commit(st) ==
    /\ requests' = st.requests
    /\ msgsToReplicas' = st.msgsToReplicas
    /\ clientIdentifiers' = st.clientIdentifiers
    /\ ledger' = st.ledger
    /\ clientOut' = st.clientOut
    /\ nodeOut' = st.nodeOut
    /\ monitorOut' = st.monitorOut
    /\ raised' = st.raised
    /\ propagatedBy' = st.propagatedBy
    /\ viewNo' = st.viewNo
    /\ instanceChanges' = st.instanceChanges
    /\ nodeBlacklist' = st.nodeBlacklist
    /\ actionQueue' = st.actionQueue
    /\ suspicionOut' = st.suspicionOut
    /\ electorOut' = st.electorOut
    /\ returned' = st.returned
    /\ status' = st.status
    /\ elector' = st.elector
    /\ nodeInBox' = st.nodeInBox
    /\ clientInBox' = st.clientInBox
    /\ clientBlacklist' = st.clientBlacklist
    /\ replicaOutBox' = st.replicaOutBox

bindClient(st, identifier, clientName) ==
    IF identifier \notin DOMAIN st.clientIdentifiers
    THEN [st EXCEPT !.clientIdentifiers = @ @@ (identifier :> clientName)]
    ELSE st

\* variant: the stored Reply is retransmitted and the request is then
\* acknowledged, recorded and propagated like a new one
processRequestBody_noStop(st, request, frm) ==
    LET s1 == bindClient(st, request.identifier, frm)
        reply == getReplyFor(s1, request)
        s2 == IF reply # NoResult THEN transmitToClient(s1, reply, frm) ELSE s1
    IN recordAndPropagate(
           transmitToClient(s2, RequestAck(request.reqId), frm), request, frm)

\* variant: the RequestAck is sent before the reply store is consulted
processRequestBody_ackFirst(st, request, frm) ==
    LET s1 == bindClient(st, request.identifier, frm)
        reply == getReplyFor(s1, request)
        s2 == transmitToClient(s1, RequestAck(request.reqId), frm)
    IN IF reply # NoResult THEN transmitToClient(s2, reply, frm)
       ELSE recordAndPropagate(s2, request, frm)

processRequestBody(st, request, frm) ==
    LET s1 == bindClient(st, request.identifier, frm)
        reply == getReplyFor(s1, request)
    IN IF reply # NoResult THEN transmitToClient(s1, reply, frm)
       ELSE recordAndPropagate(
                transmitToClient(s1, RequestAck(request.reqId), frm),
                request, frm)

processRequest(request, frm) ==
    /\ Commit(processRequestBody(Cur, request, frm))
    /\ handled' = [op |-> "processRequest", request |-> request, frm |-> frm]
    /\ UNCHANGED <<totalNodes, f, replicaInBox>>
    /\ UNCHANGED <<storeVars, clusterVars>>

\* processPropagate up to its call of tryForwarding
propagateRecorded(st, msg, frm) ==
    LET request == msg.request
        clientName == msg.senderClient
        s0 == [st EXCEPT !.propagatedBy = @ \cup {<<frm, reqDigest(request)>>}]
        s1 == bindClient(s0, request.identifier, clientName)
        s2 == [s1 EXCEPT !.requests = addPropagate(@, request, frm)]
    IN propagate(s2, request, clientName)

processPropagateBody(st, msg, frm) ==
    tryForwarding(propagateRecorded(st, msg, frm), msg.request)

processPropagate(msg, frm) ==
    /\ Commit(processPropagateBody(Cur, msg, frm))
    /\ handled' = [op |-> "processPropagate", request |-> msg.request,
                   frm |-> frm]
    /\ UNCHANGED <<totalNodes, f, replicaInBox>>
    /\ UNCHANGED <<storeVars, clusterVars>>

\* processOrdered: asyncio.sleep is called without await, so the retries run
\* back to back inside the same call
\* variant: the Ordered of every instance is executed
RECURSIVE processOrderedBody_anyInstance(_, _, _)
processOrderedBody_anyInstance(st, ordered, retryNo) ==
    LET s1 == [st EXCEPT !.monitorOut =
                  Append(@, [call |-> "requestOrdered",
                             key |-> <<ordered.identifier, ordered.reqId>>,
                             instId |-> ordered.instId,
                             byMaster |-> (ordered.instId = masterId)])]
        k == <<ordered.identifier, ordered.reqId>>
    IN IF k \in DOMAIN s1.requests
       THEN executeRequest(s1, ordered.ppTime, s1.requests[k].request)
       ELSE IF retryNo < 3
            THEN processOrderedBody_anyInstance(s1, ordered, retryNo + 1)
            ELSE s1

RECURSIVE processOrderedBody(_, _, _)
processOrderedBody(st, ordered, retryNo) ==
    LET s1 == [st EXCEPT !.monitorOut =
                  Append(@, [call |-> "requestOrdered",
                             key |-> <<ordered.identifier, ordered.reqId>>,
                             instId |-> ordered.instId,
                             byMaster |-> (ordered.instId = masterId)])]
        k == <<ordered.identifier, ordered.reqId>>
    IN IF ordered.instId = masterId
       THEN IF k \in DOMAIN s1.requests
            THEN executeRequest(s1, ordered.ppTime, s1.requests[k].request)
            ELSE IF retryNo < 3
                 THEN processOrderedBody(s1, ordered, retryNo + 1)
                 ELSE s1
       ELSE s1

\* variant: the first attempt is not counted as one, so an absent request
\* is looked up once more
processOrdered_extraRetry(ordered) ==
    /\ (ordered.instId = masterId
        /\ <<ordered.identifier, ordered.reqId>> \in DOMAIN requests)
           => Len(ledger) < MaxLedger
    /\ Commit(processOrderedBody(Cur, ordered, -1))
    /\ handled' = [op |-> "processOrdered", ordered |-> ordered]
    /\ UNCHANGED <<totalNodes, f, replicaInBox>>
    /\ UNCHANGED <<storeVars, clusterVars>>

processOrdered(ordered) ==
    /\ (ordered.instId = masterId
        /\ <<ordered.identifier, ordered.reqId>> \in DOMAIN requests)
           => Len(ledger) < MaxLedger
    /\ Commit(processOrderedBody(Cur, ordered, 0))
    /\ handled' = [op |-> "processOrdered", ordered |-> ordered]
    /\ UNCHANGED <<totalNodes, f, replicaInBox>>
    /\ UNCHANGED <<storeVars, clusterVars>>

\* serviceReplicaMsgs(limit): limit 0 stands for None (`not limit`)
RECURSIVE taken(_, _, _)
taken(queues, idx, limit) ==
    \* number of messages popped from the queues before queue idx
    IF idx = 1 THEN 0
    ELSE LET before == taken(queues, idx - 1, limit)
         IN before + (IF limit = 0 THEN Len(queues[idx - 1])
                      ELSE Min(Len(queues[idx - 1]), limit - before))

takeFrom(queues, idx, limit) ==
    IF limit = 0 THEN Len(queues[idx])
    ELSE Min(Len(queues[idx]), limit - taken(queues, idx, limit))

serviceReplicaMsgs(limit) ==
    /\ msgsToReplicas' =
          [i \in DOMAIN msgsToReplicas |->
              SubSeq(msgsToReplicas[i],
                     takeFrom(msgsToReplicas, i, limit) + 1,
                     Len(msgsToReplicas[i]))]
    /\ replicaInBox' =
          [i \in DOMAIN replicaInBox |->
              replicaInBox[i] \o
              SubSeq(msgsToReplicas[i], 1, takeFrom(msgsToReplicas, i, limit))]
    /\ clientOut' = <<>>
    /\ nodeOut' = <<>>
    /\ monitorOut' = <<>>
    /\ raised' = None
    /\ suspicionOut' = <<>>
    /\ electorOut' = <<>>
    /\ returned' = <<>>
    /\ handled' = [op |-> "serviceReplicaMsgs"]
    /\ UNCHANGED <<totalNodes, f, requests, clientIdentifiers, ledger,
                   propagatedBy, viewNo, instanceChanges, nodeBlacklist,
                   actionQueue, status, elector, nodeInBox, clientInBox,
                   clientBlacklist, replicaOutBox>>
    /\ UNCHANGED <<storeVars, clusterVars>>

\* ------------------------------------------------------------ view change
\* InstanceChanges (plenum.server.models): the voters recorded per view
hasView(ic, v) == v \in DOMAIN ic

addVote(ic, v, voter) ==
    IF v \in DOMAIN ic THEN [ic EXCEPT ![v] = @ \cup {voter}]
    ELSE (v :> {voter}) @@ ic

hasInstChngFrom(ic, v, voter) == v \in DOMAIN ic /\ voter \in ic[v]

hasQuorum(ic, v, maxFailures) ==
    v \in DOMAIN ic /\ Cardinality(ic[v]) >= (2 * maxFailures) + 1

\* Suspicions (plenum.server.suspicion_codes) and the table Node.suspicions
\* built from Suspicions.getList()
DUPLICATE_INST_CHNG == "DUPLICATE_INST_CHNG"
InvalidSignature == "InvalidSignature"
suspicions == {DUPLICATE_INST_CHNG}

\* HasActionQueue._schedule
_schedule(st, action) == [st EXCEPT !.actionQueue = Append(@, action)]

blacklistNode(st, nodeName) ==
    [st EXCEPT !.nodeBlacklist = @ \cup {nodeName}]

reportSuspiciousNode(st, nodeName, code) ==
    LET s1 == [st EXCEPT !.suspicionOut =
                  Append(@, [node |-> nodeName, code |-> code])]
        s2 == IF code = InvalidSignature THEN blacklistNode(s1, nodeName)
              ELSE s1
    IN IF code \in suspicions THEN blacklistNode(s2, nodeName) ELSE s2

\* variant: the InstanceChange is broadcast and the own vote is not recorded
sendInstanceChange_noVote(st, v) ==
    send(st, InstanceChange(v))

sendInstanceChange(st, v) ==
    LET s1 == send(st, InstanceChange(v))
    IN [s1 EXCEPT !.instanceChanges = addVote(@, v, name)]

\* variant: a view change needs no quorum
canViewChange_noQuorum(st, proposedViewNo) ==
    st.viewNo <= proposedViewNo

canViewChange(st, proposedViewNo) ==
    /\ hasQuorum(st.instanceChanges, proposedViewNo, st.f)
    /\ st.viewNo <= proposedViewNo

\* variant: the node moves to the proposed view itself
startViewChange_sameView(st, proposedViewNo) ==
    [st EXCEPT
        !.viewNo = proposedViewNo,
        !.monitorOut = Append(@, [call |-> "reset"]),
        !.electorOut = Append(@, [call |-> "viewChanged",
                                  viewNo |-> proposedViewNo])]

startViewChange(st, proposedViewNo) ==
    [st EXCEPT
        !.viewNo = proposedViewNo + 1,
        !.monitorOut = Append(@, [call |-> "reset"]),
        !.electorOut = Append(@, [call |-> "viewChanged",
                                  viewNo |-> proposedViewNo + 1])]

\* variant: the first vote for a view is accepted whatever the monitor says
firstVote_unchecked(st, v, frm, isMasterDegraded) ==
    sendInstanceChange(
        [st EXCEPT !.instanceChanges = addVote(@, v, frm)], v)

\* processInstanceChange when no vote is recorded for the view (970-978)
firstVote(st, v, frm, isMasterDegraded) ==
    IF isMasterDegraded
    THEN sendInstanceChange(
             [st EXCEPT !.instanceChanges = addVote(@, v, frm)], v)
    ELSE st

\* variant: a repeated vote is counted like a new one
laterVote_countDuplicate(st, v, frm) ==
    LET s1 == [st EXCEPT !.instanceChanges = addVote(@, v, frm)]
    IN IF canViewChange(s1, v) THEN startViewChange(s1, v) ELSE s1

\* processInstanceChange when the view has recorded votes (980-992)
laterVote(st, v, frm) ==
    IF hasInstChngFrom(st.instanceChanges, v, frm)
    THEN reportSuspiciousNode(st, frm, DUPLICATE_INST_CHNG)
    ELSE LET s1 == [st EXCEPT !.instanceChanges = addVote(@, v, frm)]
         IN IF canViewChange(s1, v) THEN startViewChange(s1, v) ELSE s1

\* variant: an InstanceChange for a view the node has left is processed
processInstanceChangeBody_anyView(st, instChg, frm, isMasterDegraded) ==
    IF ~hasView(st.instanceChanges, instChg.viewNo)
    THEN firstVote(st, instChg.viewNo, frm, isMasterDegraded)
    ELSE laterVote(st, instChg.viewNo, frm)

processInstanceChangeBody(st, instChg, frm, isMasterDegraded) ==
    IF instChg.viewNo < st.viewNo THEN st
    ELSE IF ~hasView(st.instanceChanges, instChg.viewNo)
         THEN firstVote(st, instChg.viewNo, frm, isMasterDegraded)
         ELSE laterVote(st, instChg.viewNo, frm)

\* isMasterDegraded is what Monitor.isMasterDegraded() answers when asked
processInstanceChange(instChg, frm, isMasterDegraded) ==
    /\ Commit(processInstanceChangeBody(Cur, instChg, frm, isMasterDegraded))
    /\ handled' = [op |-> "processInstanceChange", viewNo |-> instChg.viewNo,
                   frm |-> frm, isMasterDegraded |-> isMasterDegraded]
    /\ UNCHANGED <<totalNodes, f, replicaInBox>>
    /\ UNCHANGED <<storeVars, clusterVars>>

\* variant: the InstanceChange is sent whatever the monitor says
checkPerformanceBody_alwaysSend(st, isMasterDegraded) ==
    LET s1 == _schedule(st, "checkPerformance")
    IN [sendInstanceChange(s1, s1.viewNo) EXCEPT
           !.returned = <<~isMasterDegraded>>]

\* instances.masterId is 0, never None, on a node that has its replicas
checkPerformanceBody(st, isMasterDegraded) ==
    LET s1 == _schedule(st, "checkPerformance")
    IN IF isMasterDegraded
       THEN [sendInstanceChange(s1, s1.viewNo) EXCEPT !.returned = <<FALSE>>]
       ELSE [s1 EXCEPT !.returned = <<TRUE>>]

\* checkPerformance as _serviceActions runs it: the due action is taken off
\* the action queue and called
checkPerformance(isMasterDegraded) ==
    /\ actionQueue # <<>>
    /\ Head(actionQueue) = "checkPerformance"
    /\ Commit(checkPerformanceBody([Cur EXCEPT !.actionQueue = Tail(@)],
                                   isMasterDegraded))
    /\ handled' = [op |-> "checkPerformance",
                   isMasterDegraded |-> isMasterDegraded]
    /\ UNCHANGED <<totalNodes, f, replicaInBox>>
    /\ UNCHANGED <<storeVars, clusterVars>>

\* ------------------------------------------------------- messages to replicas
\* list[i] of Python for a list of length n: the 0-based position read, or
\* -1 when the index is out of range (IndexError)
pyIndex(n, i) ==
    IF 0 <= i /\ i < n THEN i
    ELSE IF i < 0 /\ i + n >= 0 THEN i + n
    ELSE -1

isValidNodeMsg(st, msg) == ~(msg.instId >= Len(st.msgsToReplicas))

sendToReplicaBody(st, msg, frm) ==
    IF isValidNodeMsg(st, msg)
    THEN LET idx == pyIndex(Len(st.msgsToReplicas), msg.instId)
         IN IF idx = -1 THEN [st EXCEPT !.raised = IndexError]
            ELSE [st EXCEPT !.msgsToReplicas[idx + 1] =
                                Append(@, <<msg, frm>>)]
    ELSE st

sendToReplica(msg, frm) ==
    /\ \A i \in DOMAIN msgsToReplicas : Len(msgsToReplicas[i]) < MaxQueue
    /\ Commit(sendToReplicaBody(Cur, msg, frm))
    /\ handled' = [op |-> "sendToReplica", msg |-> msg, frm |-> frm]
    /\ UNCHANGED <<totalNodes, f, replicaInBox>>
    /\ UNCHANGED <<storeVars, clusterVars>>

\* ------------------------------------------------------ node message intake
\* A message off the wire is a dictionary: a record whose fields are the
\* keys that the sender wrote.
\* TaggedTuples (plenum.common.types): op tag -> the fields of its class
TaggedTuples ==
    [op \in ThreePhaseOps \cup {"PROPAGATE", "INSTANCE_CHANGE", "BATCH"} |->
        CASE op = "PROPAGATE" -> {"request", "senderClient"}
          [] op = "INSTANCE_CHANGE" -> {"viewNo"}
          [] op = "BATCH" -> {"messages"}
          [] OTHER -> {"instId"}]

\* Node.authnWhitelist, by op tag (the election messages are not modelled)
authnWhitelist == ThreePhaseOps \cup {"BATCH", "INSTANCE_CHANGE"}

\* ClientAuthNr.authenticate: whether the request carries a signature that
\* verifies for its identifier
authenticate(req) == "signature" \in DOMAIN req /\ req.signature = "good"

\* variant: Propagate is treated as transport-authenticated as well
verifySignature_propagateWhitelisted(msg) ==
    IF msg.op \in authnWhitelist \cup {"PROPAGATE"} THEN TRUE
    ELSE authenticate(msg)

\* verifySignature: TRUE when it returns, FALSE when it raises
verifySignature(msg) ==
    IF msg.op \in authnWhitelist THEN TRUE
    ELSE IF msg.op = "PROPAGATE" THEN authenticate(msg.request)
    ELSE authenticate(msg)

\* validateNodeMsg: the exception it raises, "blacklisted" when it returns
\* None, or None when it returns the message
\* variant: the blacklist is not consulted
validateNodeMsg_anySender(st, msg, frm) ==
    IF "op" \notin DOMAIN msg \/ msg.op = "" THEN "MissingNodeOp"
    ELSE IF msg.op \notin DOMAIN TaggedTuples THEN "InvalidNodeOp"
    ELSE IF DOMAIN msg \ {"op"} # TaggedTuples[msg.op] THEN "InvalidNodeMsg"
    ELSE IF ~verifySignature(msg) THEN "SuspiciousNode"
    ELSE None

validateNodeMsg(st, msg, frm) ==
    IF frm \in st.nodeBlacklist THEN "blacklisted"
    ELSE IF "op" \notin DOMAIN msg \/ msg.op = "" THEN "MissingNodeOp"
    ELSE IF msg.op \notin DOMAIN TaggedTuples THEN "InvalidNodeOp"
    ELSE IF DOMAIN msg \ {"op"} # TaggedTuples[msg.op] THEN "InvalidNodeMsg"
    ELSE IF ~verifySignature(msg) THEN "SuspiciousNode"
    ELSE None

postToNodeInBox(st, msg, frm) ==
    [st EXCEPT !.nodeInBox = Append(@, <<msg, frm>>)]

RECURSIVE handleOneNodeMsgBody(_, _, _)
RECURSIVE handleEach(_, _, _)

\* variant: the members of a Batch are posted as they are
unpackNodeMsg_noRevalidation(st, msg, frm) ==
    IF msg.op = "BATCH"
    THEN [st EXCEPT !.nodeInBox =
             @ \o [i \in 1..Len(msg.messages) |-> <<msg.messages[i], frm>>]]
    ELSE postToNodeInBox(st, msg, frm)

unpackNodeMsg(st, msg, frm) ==
    IF msg.op = "BATCH" THEN handleEach(st, msg.messages, frm)
    ELSE postToNodeInBox(st, msg, frm)

\* the loop of unpackNodeMsg: handleOneNodeMsg on each member in turn
handleEach(st, msgs, frm) ==
    IF msgs = <<>> THEN st
    ELSE handleEach(handleOneNodeMsgBody(st, Head(msgs), frm), Tail(msgs), frm)

\* variant: every message that fails validation is reported
handleOneNodeMsgBody_suspectAll(st, msg, frm) ==
    LET ex == validateNodeMsg(st, msg, frm)
    IN IF ex = None THEN unpackNodeMsg(st, msg, frm)
       ELSE IF ex = "blacklisted" THEN st
       ELSE reportSuspiciousNode(st, frm, InvalidSignature)

\* handleOneNodeMsg: a SuspiciousNode is reported with the code of the
\* signature failure, every other exception only discards the message
handleOneNodeMsgBody(st, msg, frm) ==
    LET ex == validateNodeMsg(st, msg, frm)
    IN IF ex = None THEN unpackNodeMsg(st, msg, frm)
       ELSE IF ex = "SuspiciousNode"
            THEN reportSuspiciousNode(st, frm, InvalidSignature)
       ELSE st

handleOneNodeMsg(msg, frm) ==
    /\ Len(nodeInBox) < MaxInBox
    /\ Commit(handleOneNodeMsgBody(Cur, msg, frm))
    /\ handled' = [op |-> "handleOneNodeMsg", msg |-> msg, frm |-> frm]
    /\ UNCHANGED <<totalNodes, f, replicaInBox>>
    /\ UNCHANGED <<storeVars, clusterVars>>

\* nodeMsgRouter.handle
routeNodeMsg(st, msg, frm, isMasterDegraded) ==
    IF msg.op = "PROPAGATE" THEN processPropagateBody(st, msg, frm)
    ELSE IF msg.op = "INSTANCE_CHANGE"
         THEN processInstanceChangeBody(st, msg, frm, isMasterDegraded)
    ELSE sendToReplicaBody(st, msg, frm)

\* processNodeInBox: the inbox is emptied message by message; an exception
\* of a handler ends the loop with the rest left in the inbox
RECURSIVE processNodeInBoxBody(_, _)
processNodeInBoxBody(st, isMasterDegraded) ==
    IF st.nodeInBox = <<>> \/ st.raised # None THEN st
    ELSE LET m == Head(st.nodeInBox)
             s1 == [st EXCEPT !.nodeInBox = Tail(@)]
         IN processNodeInBoxBody(
                routeNodeMsg(s1, m[1], m[2], isMasterDegraded),
                isMasterDegraded)

processNodeInBox(isMasterDegraded) ==
    /\ nodeInBox # <<>>
    /\ \A i \in DOMAIN msgsToReplicas : Len(msgsToReplicas[i]) < MaxQueue
    /\ Commit(processNodeInBoxBody(Cur, isMasterDegraded))
    /\ handled' = [op |-> "processNodeInBox",
                   isMasterDegraded |-> isMasterDegraded]
    /\ UNCHANGED <<totalNodes, f, replicaInBox>>
    /\ UNCHANGED <<storeVars, clusterVars>>

\* ---------------------------------------------------- client message intake
\* the fields of the Request class
RequestFields == {"identifier", "reqId", "operation", "signature"}

\* checkValidOperation: TRUE when it returns, FALSE when it raises
\* InvalidClientRequest (an operation needs its type)
checkValidOperation(identifier, reqId, operation) == "type" \in DOMAIN operation

\* msg.get(f.REQ_ID.nm)
getReqId(msg) == IF "reqId" \in DOMAIN msg THEN msg.reqId ELSE NoReqId

\* validateClientMsg: ex is the exception it raises (None when it returns),
\* "blacklisted" when it returns None; reqId is what the exception carries
validateClientMsg(st, msg, frm) ==
    IF frm \in st.clientBlacklist THEN [ex |-> "blacklisted", reqId |-> NoReqId]
    ELSE IF {"operation", "identifier", "reqId"} \subseteq DOMAIN msg
    THEN IF ~checkValidOperation(msg.identifier, msg.reqId, msg.operation)
         THEN [ex |-> "InvalidClientRequest", reqId |-> getReqId(msg)]
         ELSE IF ~(DOMAIN msg \subseteq RequestFields)
         THEN [ex |-> "InvalidClientRequest", reqId |-> NoReqId]
         ELSE IF ~authenticate(msg)
         THEN [ex |-> "SuspiciousClient", reqId |-> NoReqId]
         ELSE [ex |-> None, reqId |-> NoReqId]
    ELSE IF "op" \in DOMAIN msg
    THEN IF msg.op \notin DOMAIN TaggedTuples
         THEN [ex |-> "InvalidClientOp", reqId |-> getReqId(msg)]
         ELSE IF msg.op # "BATCH"
         THEN [ex |-> "InvalidClientMsgType", reqId |-> getReqId(msg)]
         ELSE IF DOMAIN msg \ {"op"} # TaggedTuples[msg.op]
         THEN [ex |-> "InvalidClientRequest", reqId |-> NoReqId]
         ELSE [ex |-> None, reqId |-> NoReqId]
    ELSE [ex |-> "InvalidClientRequest", reqId |-> NoReqId]

handleInvalidClientMsg(st, v, frm) ==
    transmitToClient(st, RequestNack(v.reqId, v.ex), frm)

blacklistClient(st, clientName) ==
    [st EXCEPT !.clientBlacklist = @ \cup {clientName}]

reportSuspiciousClient(st, clientName) == blacklistClient(st, clientName)

postToClientInBox(st, msg, frm) ==
    [st EXCEPT !.clientInBox = Append(@, <<msg, frm>>)]

RECURSIVE handleOneClientMsgBody(_, _, _)
RECURSIVE handleEachClientMsg(_, _, _)

unpackClientMsg(st, msg, frm) ==
    IF "op" \in DOMAIN msg /\ msg.op = "BATCH"
    THEN handleEachClientMsg(st, msg.messages, frm)
    ELSE postToClientInBox(st, msg, frm)

\* the loop of unpackClientMsg
handleEachClientMsg(st, msgs, frm) ==
    IF msgs = <<>> THEN st
    ELSE handleEachClientMsg(handleOneClientMsgBody(st, Head(msgs), frm),
                             Tail(msgs), frm)

\* variant: every rejected client message gets its sender blacklisted
handleOneClientMsgBody_blacklistAll(st, msg, frm) ==
    LET v == validateClientMsg(st, msg, frm)
    IN IF v.ex = None THEN unpackClientMsg(st, msg, frm)
       ELSE IF v.ex = "blacklisted" THEN st
       ELSE handleInvalidClientMsg(reportSuspiciousClient(st, frm), v, frm)

handleOneClientMsgBody(st, msg, frm) ==
    LET v == validateClientMsg(st, msg, frm)
    IN IF v.ex = None THEN unpackClientMsg(st, msg, frm)
       ELSE IF v.ex = "blacklisted" THEN st
       ELSE IF v.ex = "SuspiciousClient"
            THEN handleInvalidClientMsg(reportSuspiciousClient(st, frm), v, frm)
       ELSE handleInvalidClientMsg(st, v, frm)

handleOneClientMsg(msg, frm) ==
    /\ Len(clientInBox) < MaxInBox
    /\ Commit(handleOneClientMsgBody(Cur, msg, frm))
    /\ handled' = [op |-> "handleOneClientMsg", msg |-> msg, frm |-> frm]
    /\ UNCHANGED <<totalNodes, f, replicaInBox>>
    /\ UNCHANGED <<storeVars, clusterVars>>

\* processClientInBox: every message of the inbox goes to processRequest
RECURSIVE processClientInBoxBody(_)
processClientInBoxBody(st) ==
    IF st.clientInBox = <<>> \/ st.raised # None THEN st
    ELSE LET m == Head(st.clientInBox)
             s1 == [st EXCEPT !.clientInBox = Tail(@)]
         IN processClientInBoxBody(processRequestBody(s1, m[1], m[2]))

processClientInBox ==
    /\ clientInBox # <<>>
    /\ Commit(processClientInBoxBody(Cur))
    /\ handled' = [op |-> "processClientInBox"]
    /\ UNCHANGED <<totalNodes, f, replicaInBox>>
    /\ UNCHANGED <<storeVars, clusterVars>>

\* ------------------------------------------------------ replica outboxes
\* what a replica escalates: a SuspiciousNode exception, or another one
SuspiciousNode(node, code) == [exc |-> "SuspiciousNode", node |-> node,
                               code |-> code]
OtherException == [exc |-> "ValueError"]

\* variant: an exception that is not a SuspiciousNode is dropped
processEscalatedException_swallow(st, ex) ==
    IF ex.exc = "SuspiciousNode"
    THEN reportSuspiciousNode(st, ex.node, ex.code)
    ELSE st

processEscalatedException(st, ex) ==
    IF ex.exc = "SuspiciousNode"
    THEN reportSuspiciousNode(st, ex.node, ex.code)
    ELSE [st EXCEPT !.raised = RuntimeError]

\* the body of the while loop for one popped message
serviceOutBoxMsg(st, msg) ==
    IF "op" \in DOMAIN msg /\ msg.op \in ThreePhaseOps THEN send(st, msg)
    ELSE IF "ppTime" \in DOMAIN msg THEN processOrderedBody(st, msg, 0)
    ELSE IF "exc" \in DOMAIN msg THEN processEscalatedException(st, msg)
    ELSE st

\* serviceReplicaOutBox from replica idx on, msgCount messages done; limit 0
\* stands for None; an exception raised ends the call where it is
RECURSIVE serviceReplicaOutBoxBody(_, _, _, _)
serviceReplicaOutBoxBody(st, idx, msgCount, limit) ==
    IF idx > st.f + 1 \/ st.raised # None THEN st
    ELSE IF st.replicaOutBox[idx] # <<>> /\ (limit = 0 \/ msgCount < limit)
    THEN LET msg == Head(st.replicaOutBox[idx])
             s1 == [st EXCEPT !.replicaOutBox[idx] = Tail(@)]
         IN serviceReplicaOutBoxBody(serviceOutBoxMsg(s1, msg), idx,
                                     msgCount + 1, limit)
    ELSE serviceReplicaOutBoxBody(st, idx + 1, msgCount, limit)

serviceReplicaOutBox(limit) ==
    /\ \E i \in DOMAIN replicaOutBox : replicaOutBox[i] # <<>>
    /\ Commit(serviceReplicaOutBoxBody(Cur, 1, 0, limit))
    /\ handled' = [op |-> "serviceReplicaOutBox", limit |-> limit,
                   outBox |-> replicaOutBox]
    /\ UNCHANGED <<totalNodes, f, replicaInBox>>
    /\ UNCHANGED <<storeVars, clusterVars>>

\* the outboxes one after the other, from replica idx on
RECURSIVE flat(_, _)
flat(boxes, idx) ==
    IF idx \notin DOMAIN boxes THEN <<>>
    ELSE boxes[idx] \o flat(boxes, idx + 1)

\* a replica puts a message in its outBox
replicaEmits(idx, msg) ==
    /\ Len(flat(replicaOutBox, 1)) < MaxOutBox
    /\ replicaOutBox' = [replicaOutBox EXCEPT ![idx] = Append(@, msg)]
    /\ handled' = [op |-> "replicaEmits"]
    /\ UNCHANGED <<totalNodes, f, requests, msgsToReplicas, replicaInBox,
                   clientIdentifiers, ledger, clientOut, nodeOut, monitorOut,
                   raised, propagatedBy, viewNo, instanceChanges,
                   nodeBlacklist, actionQueue, suspicionOut, electorOut,
                   returned, status, elector, nodeInBox, clientInBox,
                   clientBlacklist>>
    /\ UNCHANGED <<storeVars, clusterVars>>

\* ---------------------------------------------------------------- lifecycle
\* Status.going(): the statuses of a node that runs (Motor keeps the status;
\* starting and started are not told apart here)
going == {"started"}

\* Node.start: Motor.start sets the status; the rest runs unless the node
\* was already going
startBody(st) ==
    IF st.status \in going THEN st
    ELSE [st EXCEPT !.status = "started", !.elector = PrimaryElector]

start ==
    /\ Commit(startBody(Cur))
    /\ handled' = [op |-> "start"]
    /\ UNCHANGED <<totalNodes, f, replicaInBox>>
    /\ UNCHANGED <<storeVars, clusterVars>>

\* Node.reset
reset(st) == [st EXCEPT !.actionQueue = <<>>, !.elector = None]

\* Motor.stop on a going node: onStopping, then the status is stopped
onStoppingBody(st) == [reset(st) EXCEPT !.status = "stopped"]

onStopping ==
    /\ status \in going
    /\ Commit(onStoppingBody(Cur))
    /\ handled' = [op |-> "onStopping"]
    /\ UNCHANGED <<totalNodes, f, replicaInBox>>
    /\ UNCHANGED <<storeVars, clusterVars>>

\* ---------------------------------------------------------- TransactionStore
\* Reply.reqId
replyReqId(reply) == reply.result.reqId

_isNewTxn(identifier, reply, txnId) ==
    /\ \/ identifier \notin DOMAIN processedRequests
       \/ replyReqId(reply) \notin DOMAIN processedRequests[identifier]
    /\ txnId # NoTxnId

\* variant: the Reply is not stored, only the reference to it
addToProcessedTxns_referenceOnly(identifier, txnId, reply) ==
    LET perClient == IF identifier \in DOMAIN processedRequests
                     THEN processedRequests[identifier] ELSE <<>>
    IN [transactions |-> transactions,
        processedRequests |->
            (identifier :> ((replyReqId(reply) :> txnId) @@ perClient))
            @@ processedRequests]

\* the three dictionaries after addToProcessedTxns(identifier, txnId, reply)
addToProcessedTxns(identifier, txnId, reply) ==
    LET perClient == IF identifier \in DOMAIN processedRequests
                     THEN processedRequests[identifier] ELSE <<>>
    IN [transactions |-> (txnId :> reply) @@ transactions,
        processedRequests |->
            (identifier :> ((replyReqId(reply) :> txnId) @@ perClient))
            @@ processedRequests]

\* get(identifier, reqId): the else belongs to the outer if, so a known
\* client with an unknown reqId falls off the end and returns None as well
get(identifier, reqId) ==
    IF identifier \in DOMAIN processedRequests
    THEN IF reqId \in DOMAIN processedRequests[identifier]
         THEN LET txnId == processedRequests[identifier][reqId]
              IN IF txnId \in DOMAIN transactions THEN transactions[txnId]
                 ELSE [op |-> KeyError]
         ELSE NoResult
    ELSE NoResult

\* append: Queue.put is a coroutine that is never awaited, so the per-client
\* queue is created and stays empty
append(identifier, reply, txnId) ==
    /\ IF _isNewTxn(identifier, reply, txnId)
       THEN LET added == addToProcessedTxns(identifier, txnId, reply)
            IN /\ transactions' = added.transactions
               /\ processedRequests' = added.processedRequests
       ELSE UNCHANGED <<transactions, processedRequests>>
    /\ responses' = IF identifier \in DOMAIN responses THEN responses
                    ELSE responses @@ (identifier :> <<>>)
    /\ firstAppended' =
          IF txnId # NoTxnId
             /\ <<identifier, replyReqId(reply)>> \notin DOMAIN firstAppended
          THEN firstAppended @@ (<<identifier, replyReqId(reply)>> :> reply)
          ELSE firstAppended
    /\ got' = <<>>
    /\ called' = [op |-> "append", identifier |-> identifier,
                  reqId |-> replyReqId(reply), txnId |-> txnId]
    /\ UNCHANGED <<running, getsCounter, stopOut>>
    /\ UNCHANGED <<nodeVars, clusterVars>>

\* a caller records a transaction itself: addToProcessedTxns(identifier,
\* txnId, reply)
recordTxn(identifier, txnId, reply) ==
    LET added == addToProcessedTxns(identifier, txnId, reply)
    IN /\ transactions' = added.transactions
       /\ processedRequests' = added.processedRequests
       /\ got' = <<>>
       /\ called' = [op |-> "addToProcessedTxns", identifier |-> identifier,
                     reqId |-> replyReqId(reply), txnId |-> txnId]
       /\ UNCHANGED <<responses, firstAppended, running, getsCounter,
                      stopOut>>
       /\ UNCHANGED <<nodeVars, clusterVars>>

\* TransactionStore.reset: the counter and the three dictionaries are
\* emptied, running is left as it is
storeReset ==
    /\ getsCounter' = 0
    /\ processedRequests' = <<>>
    /\ responses' = <<>>
    /\ transactions' = <<>>
    /\ firstAppended' = <<>>
    /\ got' = <<>>
    /\ called' = [op |-> "reset"]
    /\ UNCHANGED <<running, stopOut>>
    /\ UNCHANGED <<nodeVars, clusterVars>>

StopTimeout == "StopTimeout"

\* stop: with no get counted it returns True at once, with one counted it
\* sleeps until the timeout and raises StopTimeout (nothing lowers the
\* counter meanwhile)
stop ==
    /\ running' = FALSE
    /\ stopOut' = IF getsCounter = 0 THEN "True" ELSE StopTimeout
    /\ got' = <<>>
    /\ called' = [op |-> "stop"]
    /\ UNCHANGED <<processedRequests, transactions, responses, firstAppended,
                   getsCounter>>
    /\ UNCHANGED <<nodeVars, clusterVars>>

\* a caller awaits get(identifier, reqId): got holds what it returned
awaitGet(identifier, reqId) ==
    /\ got' = <<get(identifier, reqId)>>
    /\ called' = [op |-> "get", identifier |-> identifier, reqId |-> reqId]
    /\ UNCHANGED <<processedRequests, transactions, responses, firstAppended,
                   running, getsCounter, stopOut>>
    /\ UNCHANGED <<nodeVars, clusterVars>>

\* ------------------------------------------ replicas: three-phase commit
\* The master replicas of the pool on one slot (viewNo, instId, ppSeqNo).
\* A Byzantine node sends whatever it likes to whomever it likes, so its
\* messages are always there to be received; a correct replica's are there
\* once sent. A replica tallies the PREPAREs and COMMITs of the slot once it
\* is PREPREPARED; until then they wait.
Digests == {"d1", "d2"}
primaryName == "Alpha"

ThreePhaseMsg(op, frm, digest) == [op |-> op, frm |-> frm, digest |-> digest]

available(msg) == msg.frm \in faulty \/ msg \in sentMsgs

\* variant: a message counts whatever its digest
matching_anyDigest(pp, d) == pp # None

\* only a message with the digest of the accepted PRE-PREPARE counts
matching(pp, d) == pp # None /\ d = pp

\* the primary's PRE-PREPARE counts as its PREPARE
prepareVoters(prep, pp) ==
    prep \cup (IF pp # None THEN {primaryName} ELSE {})

\* replica n after a message: PREPREPARED with 2f matching PREPAREs it is
\* PREPARED and sends its COMMIT; PREPARED with 2f+1 matching COMMITs it is
\* COMMITTED and emits Ordered
replicaStep(n, pp, prep, com, out) ==
    LET canCommit == /\ pp # None
                     /\ Cardinality(prepareVoters(prep, pp)) >= 2 * f
                     /\ n \notin com
        com2 == IF canCommit THEN com \cup {n} ELSE com
        out2 == IF canCommit THEN out \cup {ThreePhaseMsg("COMMIT", n, pp)}
                ELSE out
        canOrder == /\ pp # None
                    /\ n \in com2
                    /\ Cardinality(com2) >= 2 * f + 1
    IN /\ prePrepared' = [prePrepared EXCEPT ![n] = pp]
       /\ prepares' = [prepares EXCEPT ![n] = prep]
       /\ commits' = [commits EXCEPT ![n] = com2]
       /\ sentMsgs' = sentMsgs \cup out2
       /\ emitted' = [emitted EXCEPT ![n] = IF canOrder THEN pp ELSE @]

\* the primary issues the PRE-PREPARE of the slot
sendPrePrepare(d) ==
    /\ primaryName \notin faulty
    /\ prePrepared[primaryName] = None
    /\ replicaStep(primaryName, d, prepares[primaryName],
                   commits[primaryName],
                   {ThreePhaseMsg("PREPREPARE", primaryName, d)})
    /\ UNCHANGED <<faulty, suspected>>
    /\ UNCHANGED <<nodeVars, storeVars>>

\* a non-primary receives a PRE-PREPARE: the first one is accepted and
\* answered with a PREPARE, another one with a different digest raises a
\* suspicion against the primary
processPrePrepare(n, d) ==
    /\ n \notin faulty
    /\ n # primaryName
    /\ available(ThreePhaseMsg("PREPREPARE", primaryName, d))
    /\ prePrepared[n] # d
    /\ IF prePrepared[n] = None
       THEN /\ replicaStep(n, d, prepares[n] \cup {n}, commits[n],
                           {ThreePhaseMsg("PREPARE", n, d)})
            /\ UNCHANGED suspected
       ELSE /\ suspected' = suspected \cup {<<n, primaryName>>}
            /\ UNCHANGED <<sentMsgs, prePrepared, prepares, commits, emitted>>
    /\ UNCHANGED faulty
    /\ UNCHANGED <<nodeVars, storeVars>>

processPrepare(n, frm, d) ==
    /\ n \notin faulty
    /\ frm \notin {n, primaryName}
    /\ available(ThreePhaseMsg("PREPARE", frm, d))
    /\ matching(prePrepared[n], d)
    /\ frm \notin prepares[n]
    /\ replicaStep(n, prePrepared[n], prepares[n] \cup {frm}, commits[n], {})
    /\ UNCHANGED <<faulty, suspected>>
    /\ UNCHANGED <<nodeVars, storeVars>>

processCommit(n, frm, d) ==
    /\ n \notin faulty
    /\ frm # n
    /\ available(ThreePhaseMsg("COMMIT", frm, d))
    /\ matching(prePrepared[n], d)
    /\ frm \notin commits[n]
    /\ replicaStep(n, prePrepared[n], prepares[n], commits[n] \cup {frm}, {})
    /\ UNCHANGED <<faulty, suspected>>
    /\ UNCHANGED <<nodeVars, storeVars>>

\* ------------------------------------------------------------ specification
StoreInit ==
    /\ processedRequests = <<>>
    /\ transactions = <<>>
    /\ responses = <<>>
    /\ firstAppended = <<>>
    /\ running = TRUE
    /\ getsCounter = 0
    /\ got = <<>>
    /\ stopOut = None
    /\ called = [op |-> "__init__"]

\* the node as __init__ leaves it
NodeInit ==
    /\ totalNodes \in PoolSizes
    /\ f = getMaxFailures(totalNodes)
    /\ requests = <<>>
    /\ msgsToReplicas = [i \in 1..(f + 1) |-> <<>>]
    /\ replicaInBox = [i \in 1..(f + 1) |-> <<>>]
    /\ clientIdentifiers = <<>>
    /\ ledger = <<>>
    /\ clientOut = <<>>
    /\ nodeOut = <<>>
    /\ monitorOut = <<>>
    /\ raised = None
    /\ handled = [op |-> "init"]
    /\ propagatedBy = {}
    /\ viewNo = 0
    /\ instanceChanges = <<>>
    /\ nodeBlacklist = {}
    /\ actionQueue = <<"checkPerformance">>
    /\ suspicionOut = <<>>
    /\ electorOut = <<>>
    /\ returned = <<>>
    /\ nodeInBox = <<>>
    /\ clientInBox = <<>>
    /\ clientBlacklist = {}
    /\ replicaOutBox = [i \in 1..(f + 1) |-> <<>>]

\* never started
Constructed ==
    /\ status = "stopped"
    /\ elector = None

\* after its first start, which leaves everything else as constructed
Started ==
    /\ status = "started"
    /\ elector = PrimaryElector

\* the message handlers are studied on a node that has been started
\* the replicas before the slot is used
ClusterInit ==
    /\ sentMsgs = {}
    /\ prePrepared = [n \in nodeReg(totalNodes) |-> None]
    /\ prepares = [n \in nodeReg(totalNodes) |-> {}]
    /\ commits = [n \in nodeReg(totalNodes) |-> {}]
    /\ emitted = [n \in nodeReg(totalNodes) |-> None]
    /\ suspected = {}

Init == NodeInit /\ Started /\ StoreInit /\ ClusterInit /\ faulty = {}

Limits == {0, 1}

OrderedMsgs ==
    {Ordered(i, 0, r.identifier, r.reqId, reqDigest(r), t) :
        i \in 0..f, r \in ReqSet, t \in PpTimes}

\* the peers whose PROPAGATEs are delivered (the other peers stay silent)
Senders == (nodeReg(totalNodes) \ {name}) \cap {"Beta", "Gamma"}

\* REQUEST and PROPAGATE deliveries and the servicing of the replica queues
Next ==
    \/ \E request \in ReqSet, frm \in Clients : processRequest(request, frm)
    \/ \E request \in ReqSet, c \in Clients, frm \in Senders :
            processPropagate(Propagate(request, c), frm)
    \/ \E limit \in Limits : serviceReplicaMsgs(limit)

Spec == Init /\ [][Next]_vars

\* execution: REQUEST, PROPAGATE from one peer, and Ordered from the replicas
ExecPeers == {"Beta"}

NextExec ==
    \/ \E request \in ReqSet, frm \in Clients : processRequest(request, frm)
    \/ \E request \in ReqSet, c \in Clients, frm \in ExecPeers :
            processPropagate(Propagate(request, c), frm)
    \/ \E ordered \in OrderedMsgs : processOrdered(ordered)

SpecExec == Init /\ [][NextExec]_vars

\* the TransactionStore under append calls as generateReply makes them
\* (identifier, the Reply built from the request, the txnId or None)
StoreReqSet == ReqSet \cup {Request(IdA, 1, OpBuy)}

StoreReplies ==
    {Reply([identifier |-> r.identifier, reqId |-> r.reqId,
            txnId |-> txnIdOf(r.identifier, r.reqId), txnTime |-> t,
            txnType |-> r.operation.type]) :
        r \in StoreReqSet, t \in PpTimes}

NextTS ==
    \E reply \in StoreReplies :
        \E txnId \in {NoTxnId, reply.result.txnId} :
            append(reply.result.identifier, reply, txnId)

SpecTS == Init /\ [][NextTS]_vars

\* the store with its readers and its stop
NextStore ==
    \/ NextTS
    \/ stop
    \/ \E r \in StoreReqSet : awaitGet(r.identifier, r.reqId)

SpecStore == Init /\ [][NextStore]_vars

\* the store under every call that writes it, with txnIds of the caller's
\* choosing, and its readers
TxnIds == {txnIdOf(IdA, 11), txnIdOf(IdA, 1)}

TxnReplies ==
    {reply \in StoreReplies :
        /\ reply.result.txnType = OpBuy.type
        /\ <<reply.result.identifier, reply.result.reqId>>
              \in {<<IdA, 11>>, <<IdA1, 1>>}
        /\ reply.result.identifier = IdA1 => reply.result.txnTime = 1}

NextTxnStore ==
    \/ \E reply \in TxnReplies, txnId \in TxnIds \cup {NoTxnId} :
          append(reply.result.identifier, reply, txnId)
    \/ \E reply \in TxnReplies, txnId \in TxnIds :
          recordTxn(reply.result.identifier, txnId, reply)
    \/ storeReset
    \/ \E r \in {Request(IdA, 11, OpBuy), Request(IdA1, 1, OpBuy)} :
          awaitGet(r.identifier, r.reqId)

SpecTxnStore == Init /\ [][NextTxnStore]_vars

\* view changes: InstanceChange from the peers and the periodic performance
\* check, with the monitor's verdict as an input of each
ViewNos == 0..MaxView

NextView ==
    \/ \E v \in ViewNos, frm \in nodeReg(totalNodes) \ {name},
          isMasterDegraded \in BOOLEAN :
            processInstanceChange(InstanceChange(v), frm, isMasterDegraded)
    \/ \E isMasterDegraded \in BOOLEAN : checkPerformance(isMasterDegraded)

SpecView == Init /\ [][NextView]_vars

\* lifecycle: start and stop of the node; prod services messages and the
\* action queue only while the status is not stopped
NextLife ==
    \/ start
    \/ onStopping
    \/ status # "stopped" /\ NextView

\* the node as __init__ leaves it, before start
InitLife ==
    NodeInit /\ Constructed /\ StoreInit /\ ClusterInit /\ faulty = {}

SpecLife == InitLife /\ [][NextLife]_vars

\* three-phase messages of the peers, routed to the replica queues; the
\* instId is whatever integer the peer wrote
InstIds == -3..2

NextToReplica ==
    \E op \in ThreePhaseOps, i \in InstIds, frm \in {"Beta"} :
        sendToReplica(ThreePhase(op, i), frm)

SpecToReplica == Init /\ [][NextToReplica]_vars

\* what the peers put on the wire: a signed request of cli1 and a request
\* under another key whose signature does not verify, ...
SignedReq == Request(IdA, 11, OpBuy) @@ [signature |-> "good"]
ForgedReq == Request(IdA1, 1, OpSell) @@ [signature |-> "bad"]

\* ... as PROPAGATEs, an InstanceChange, and messages that do not decode
WireLeaves ==
    {Propagate(SignedReq, "cli1"), Propagate(ForgedReq, "cli2"),
     InstanceChange(0),
     [request |-> SignedReq, senderClient |-> "cli1"],
     [op |-> "BOGUS", request |-> SignedReq, senderClient |-> "cli1"],
     [op |-> "PROPAGATE", request |-> SignedReq]}

\* ... alone or in a Batch (one Batch nests another)
WireMsgs ==
    WireLeaves
    \cup {Batch(<<a, Propagate(SignedReq, "cli1")>>) : a \in WireLeaves}
    \cup {Batch(<<InstanceChange(0), a>>) : a \in WireLeaves}
    \cup {Batch(<<Batch(<<Propagate(ForgedReq, "cli2"), InstanceChange(0)>>),
                  Propagate(SignedReq, "cli1")>>)}

NextIntake ==
    \/ \E msg \in WireMsgs, frm \in Senders : handleOneNodeMsg(msg, frm)
    \/ \E isMasterDegraded \in BOOLEAN : processNodeInBox(isMasterDegraded)

SpecIntake == Init /\ [][NextIntake]_vars

\* what the clients put on the wire: two signed requests, a forged one, a
\* request without a transaction type, one with a field too many, a message
\* with neither request fields nor op, an unknown op and a node message
ClientLeaves ==
    {SignedReq, Request(IdA, 12, OpSell) @@ [signature |-> "good"], ForgedReq,
     Request(IdA, 13, [amount |-> 1]) @@ [signature |-> "good"],
     SignedReq @@ [junk |-> 1],
     [identifier |-> IdA],
     [op |-> "BOGUS", reqId |-> 14],
     InstanceChange(0)}

ClientMsgs ==
    ClientLeaves
    \cup {Batch(<<a, SignedReq>>) : a \in ClientLeaves}
    \cup {Batch(<<SignedReq, a>>) : a \in ClientLeaves}

NextClient ==
    \/ \E msg \in ClientMsgs, frm \in Clients : handleOneClientMsg(msg, frm)
    \/ processClientInBox

SpecClient == Init /\ [][NextClient]_vars

\* what the replicas emit: a three-phase message, an Ordered of a request the
\* node does not hold, a suspicion with a code of the table, one without a
\* code, another exception, and an object of no handled type
OutBoxMsgs ==
    {ThreePhase("PREPARE", 0),
     Ordered(0, 0, IdA, 11, "d", 1),
     SuspiciousNode("Beta", DUPLICATE_INST_CHNG),
     SuspiciousNode("Gamma", None),
     OtherException,
     InstanceChange(0)}

NextOutBox ==
    \/ \E idx \in 1..(f + 1), msg \in OutBoxMsgs : replicaEmits(idx, msg)
    \/ \E limit \in 0..2 : serviceReplicaOutBox(limit)

SpecOutBox == Init /\ [][NextOutBox]_vars

\* a pool of N = 3f + 1 = 4 nodes of which f are Byzantine: the primary, or
\* one of the others (they are alike, Delta stands for them). A Byzantine
\* node is free to behave as a correct one, so fewer than f faults are
\* behaviours of these pools too.
InitAgreement ==
    /\ NodeInit /\ Started /\ StoreInit /\ ClusterInit
    /\ totalNodes = 4
    /\ faulty \in {{primaryName}, {"Delta"}}

NextAgreement ==
    \/ \E d \in Digests : sendPrePrepare(d)
    \/ \E n \in nodeReg(totalNodes), d \in Digests : processPrePrepare(n, d)
    \/ \E n \in nodeReg(totalNodes), frm \in nodeReg(totalNodes),
          d \in Digests : processPrepare(n, frm, d)
    \/ \E n \in nodeReg(totalNodes), frm \in nodeReg(totalNodes),
          d \in Digests : processCommit(n, frm, d)

SpecAgreement == InitAgreement /\ [][NextAgreement]_vars

\* forwarding in a pool of correct nodes, seen from this node: the client
\* sends its REQUEST to some correct node, here or elsewhere; every correct
\* peer broadcasts one PROPAGATE for it, which the transport delivers once,
\* at some time
FwdReqs == {Request(IdA, 11, OpBuy), Request(IdA1, 1, OpBuy)}
Peers == {"Beta", "Gamma", "Delta"}

deliverPropagate(request, frm) ==
    /\ frm \in nodeReg(totalNodes)
    /\ <<frm, reqDigest(request)>> \notin propagatedBy
    /\ processPropagate(Propagate(request, "cli1"), frm)

\* a PROPAGATE still under way is delivered
deliverSome ==
    \E request \in FwdReqs, frm \in Peers : deliverPropagate(request, frm)

NextForward ==
    \/ \E request \in FwdReqs : processRequest(request, "cli1")
    \/ deliverSome

\* a delivery stays enabled until it is made, so weak fairness of the
\* transport as a whole delivers every PROPAGATE
SpecForward == Init /\ [][NextForward]_vars /\ WF_vars(deliverSome)

\* a pool in which every node is correct: a peer still in view 0 runs its
\* performance check, finds the master degraded, and the InstanceChange it
\* broadcasts is delivered here, once, before anything else happens
peerCheckPerformance(peer, isMasterDegraded) ==
    LET sent == checkPerformanceBody([Cur EXCEPT !.viewNo = 0], TRUE).nodeOut
    IN /\ peer \in nodeReg(totalNodes) \ {name}
       /\ processInstanceChange(sent[1], peer, isMasterDegraded)

NextCorrect ==
    \/ \E peer \in Peers, isMasterDegraded \in BOOLEAN :
            peerCheckPerformance(peer, isMasterDegraded)
    \/ \E isMasterDegraded \in BOOLEAN : checkPerformance(isMasterDegraded)

SpecCorrect == Init /\ [][NextCorrect]_vars

\* peers and clients that get themselves blacklisted and go on sending
ForgedBatch == Batch(<<Propagate(ForgedReq, "cli2"),
                       Propagate(SignedReq, "cli1")>>)

NextBlacklist ==
    \/ \E msg \in {Propagate(SignedReq, "cli1"), ForgedBatch},
          frm \in Senders : handleOneNodeMsg(msg, frm)
    \/ \E isMasterDegraded \in BOOLEAN : processNodeInBox(isMasterDegraded)
    \/ \E msg \in {SignedReq, ForgedReq},
          frm \in Clients : handleOneClientMsg(msg, frm)
    \/ processClientInBox

SpecBlacklist == Init /\ [][NextBlacklist]_vars

\* ==================================================================== claims
Keys == {key(r) : r \in ReqSet}

\* everything appended so far to the queue of replica i (1-based)
delivered(i) == replicaInBox[i] \o msgsToReplicas[i]

keyOfDigest(d) == <<d[2][1], d[2][2]>>

\* number of digests of request key k appended to the queue of replica i
forwardCount(i, k) ==
    Cardinality({j \in 1..Len(delivered(i)) :
                    keyOfDigest(delivered(i)[j]) = k})

\* C1: under any interleaving of REQUEST and PROPAGATE deliveries every request
\* key is forwarded at most once: its digest was appended once to every
\* replica queue (and the key is flagged forwarded) or to none, and every
\* replica queue received the same sequence of digests.
C1_ForwardedAtMostOnce ==
    /\ \A i \in DOMAIN msgsToReplicas : delivered(i) = delivered(1)
    /\ \A i \in DOMAIN msgsToReplicas : \A k \in Keys :
          forwardCount(i, k) =
              IF k \in DOMAIN requests /\ requests[k].forwarded THEN 1 ELSE 0

\* a request with f+2 recorded senders whose digest sits once in both queues
C1_Witness ==
    /\ f = 1
    /\ \E k \in DOMAIN requests :
          /\ Cardinality(requests[k].propagates) = f + 2
          /\ forwardCount(1, k) = 1
          /\ forwardCount(2, k) = 1
    /\ Len(delivered(1)) = 2

canForwardExpected(st, request) ==
    /\ key(request) \in DOMAIN st.requests
    /\ Cardinality(st.requests[key(request)].propagates) = st.f + 1
    /\ ~st.requests[key(request)].forwarded

canForwardAgrees(st, request) ==
    canForward(st, request) = Returned(canForwardExpected(st, request))

\* C2: canForward(req) returns true iff exactly f+1 distinct senders are
\* recorded for req's key and the forwarded flag is false, and false for a
\* request that is not in the registry; checked on the registry between
\* handlers and at the point where each handler calls tryForwarding.
C2_CanForwardIff ==
    \A request \in ReqSet :
        /\ canForwardAgrees(Cur, request)
        /\ \A c \in Clients :
              canForwardAgrees(recorded(Cur, request, c), request)
        /\ \A c \in Clients, frm \in Senders :
              canForwardAgrees(
                  propagateRecorded(Cur, Propagate(request, c), frm), request)

\* some delivery would make canForward true, one request is forwarded already
\* and one is not in the registry
C2_Witness ==
    /\ \E request \in ReqSet, c \in Clients, frm \in Senders :
          canForward(propagateRecorded(Cur, Propagate(request, c), frm),
                     request) = Returned(TRUE)
    /\ \E request \in ReqSet : key(request) \notin DOMAIN requests
    /\ \E k \in DOMAIN requests :
          requests[k].forwarded /\ Cardinality(requests[k].propagates) = f + 1

\* C3: after every handler, a request with at least f+1 recorded senders has
\* been forwarded, for every f >= 0 and every arrival order.
C3_OvershootMeansForwarded ==
    \A k \in DOMAIN requests :
        Cardinality(requests[k].propagates) >= f + 1 => requests[k].forwarded

\* the nodes that propagated a request with digest d
propagators(d) == {n \in nodeReg(totalNodes) : <<n, d>> \in propagatedBy}

\* C4: a digest is forwarded to the replicas only when f+1 distinct nodes
\* (this node included) have propagated a request with that digest.
C4_ForwardNeedsSameDigest ==
    \A i \in DOMAIN msgsToReplicas : \A j \in 1..Len(delivered(i)) :
        Cardinality(propagators(delivered(i)[j])) >= f + 1

\* C5: recording a PROPAGATE from a sender that is already recorded for the
\* request's key leaves the registry (votes, stored request, forwarded flag)
\* as it is.
C5_AddPropagateIdempotent ==
    \A request \in ReqSet, sender \in nodeReg(totalNodes) :
        hasPropagated(requests, request, sender)
            => addPropagate(requests, request, sender) = requests

\* a peer has propagated two bodies under one key and counts as one vote, and
\* the body offered again differs from the stored one
C5_Witness ==
    \E request \in ReqSet, sender \in Senders :
        /\ <<sender, reqDigest(request)>> \in propagatedBy
        /\ hasPropagated(requests, request, sender)
        /\ requests[key(request)].request # request
        /\ requests[key(request)].forwarded
        /\ handled.op = "processPropagate"
        /\ handled.frm = sender
        /\ handled.request = request

\* the Reply stored for the request, before the handler runs
storedReply(request) == getReplyFor(Cur, request)

\* this step is processRequest for a request that has a stored Reply
\* (handled' names the handler that made the step and its arguments)
RequestOfExecuted ==
    /\ handled'.op = "processRequest"
    /\ storedReply(handled'.request) # NoResult

\* this step is processOrdered for an Ordered of a backup instance
BackupOrdered ==
    /\ handled'.op = "processOrdered"
    /\ handled'.ordered.instId # masterId

sameKey(r1, r2) == r1.identifier = r2.identifier /\ r1.reqId = r2.reqId

\* C6: whatever master Ordered messages the node processes, the ledger holds
\* at most one record per (clientId, reqId), and the Reply sent on executing a
\* master Ordered is the one stored for that (clientId, reqId).
C6_OneRecordPerRequest ==
    /\ \A i, j \in 1..Len(ledger) : sameKey(ledger[i], ledger[j]) => i = j
    /\ (handled.op = "processOrdered" /\ clientOut # <<>>)
          => clientOut[1].msg =
                Reply(getReply(ledger, handled.ordered.identifier,
                               handled.ordered.reqId))

\* C7: get(clientId, reqId) returns the Reply passed to the first append made
\* for that (clientId, reqId) with a txnId, whatever appends followed.
C7_FirstAppendWins ==
    \A k \in DOMAIN firstAppended : get(k[1], k[2]) = firstAppended[k]

\* C8: a REQUEST whose (clientId, reqId) has a stored Reply is answered by
\* retransmitting that Reply to the sender and nothing else: no RequestAck,
\* no change of the Requests registry, no PROPAGATE, nothing forwarded.
C8_RetransmitAndStop ==
    [][RequestOfExecuted
          => /\ clientOut' = <<[to |-> handled'.frm,
                                msg |-> storedReply(handled'.request)]>>
             /\ nodeOut' = <<>>
             /\ requests' = requests
             /\ msgsToReplicas' = msgsToReplicas
             /\ monitorOut' = <<>>]_vars

\* a REQUEST was just answered from the store while its key is still in the
\* registry, by a client other than the one bound to the identifier
C8_Witness ==
    /\ handled.op = "processRequest"
    /\ getReply(ledger, handled.request.identifier, handled.request.reqId)
          # NoResult
    /\ key(handled.request) \in DOMAIN requests
    /\ clientIdentifiers[handled.request.identifier] # handled.frm
    /\ clientOut # <<>>

\* C9 as stated: the second submission of an executed (clientId, reqId) is
\* answered with a RequestAck followed by the cached Reply, and the ledger
\* is not appended to.
C9_AckThenCachedReply ==
    [][RequestOfExecuted
          => /\ clientOut' = <<[to |-> handled'.frm,
                                msg |-> RequestAck(handled'.request.reqId)],
                               [to |-> handled'.frm,
                                msg |-> storedReply(handled'.request)]>>
             /\ ledger' = ledger]_vars

\* C9 amended: the second submission of an executed (clientId, reqId) is
\* answered with the cached Reply alone, without a RequestAck, and the
\* ledger is not appended to.
C9_CachedReplyOnly ==
    [][RequestOfExecuted
          => /\ Len(clientOut') = 1
             /\ clientOut'[1] = [to |-> handled'.frm,
                                 msg |-> storedReply(handled'.request)]
             /\ clientOut'[1].msg.op = "REPLY"
             /\ ledger' = ledger]_vars

\* the client that submitted the executed request has submitted it again
C9_Witness ==
    /\ handled.op = "processRequest"
    /\ Len(ledger) = 1
    /\ sameKey(ledger[1], handled.request)
    /\ clientIdentifiers[handled.request.identifier] = handled.frm
    /\ Len(clientOut) = 1

\* C10: processing an Ordered of a backup instance reports it to the monitor
\* and does nothing else: ledger (and with it the reply store), Requests
\* registry, client bindings and replica queues are unchanged and nothing is
\* sent to a client or a node.
C10_BackupOrderedMonitorOnly ==
    [][BackupOrdered
          => /\ ledger' = ledger
             /\ requests' = requests
             /\ clientIdentifiers' = clientIdentifiers
             /\ msgsToReplicas' = msgsToReplicas
             /\ clientOut' = <<>>
             /\ nodeOut' = <<>>
             /\ monitorOut' =
                   <<[call |-> "requestOrdered",
                      key |-> <<handled'.ordered.identifier,
                                handled'.ordered.reqId>>,
                      instId |-> handled'.ordered.instId,
                      byMaster |-> FALSE]>>]_vars

\* a backup Ordered was processed for a request that is in the registry and
\* has not been executed
C10_Witness ==
    /\ handled.op = "processOrdered"
    /\ handled.ordered.instId # masterId
    /\ <<handled.ordered.identifier, handled.ordered.reqId>> \in DOMAIN requests
    /\ getReply(ledger, handled.ordered.identifier, handled.ordered.reqId)
          = NoResult
    /\ Len(monitorOut) = 1

\* the handler that is about to complete is processOrdered for a master
\* Ordered whose key is not in the registry
MasterOrderedAbsent ==
    /\ handled'.op = "processOrdered"
    /\ handled'.ordered.instId = masterId
    /\ <<handled'.ordered.identifier, handled'.ordered.reqId>>
          \notin DOMAIN requests

\* number of times the last handler looked the Ordered up (one
\* Monitor.requestOrdered call opens every attempt of processOrdered)
attempts == Cardinality({i \in 1..Len(monitorOut) :
                            monitorOut[i].call = "requestOrdered"})

\* C11: a master Ordered whose key is not in the registry is given up after
\* the first attempt and at most 3 retries; it is then dropped: no ledger
\* append (the reply store reads the ledger), no change of the registry, no
\* Reply or anything else sent, no exception.
C11_AbsentOrderedDropped ==
    [][MasterOrderedAbsent
          => /\ Len(monitorOut') <= 1 + 3
             /\ \A i \in 1..Len(monitorOut') :
                    monitorOut'[i].call = "requestOrdered"
             /\ ledger' = ledger
             /\ requests' = requests
             /\ clientIdentifiers' = clientIdentifiers
             /\ clientOut' = <<>>
             /\ nodeOut' = <<>>
             /\ raised' = None]_vars

\* a master Ordered for a key that is not in the registry was dropped after
\* its third retry, on a node that has executed another request before
C11_Witness ==
    /\ handled.op = "processOrdered"
    /\ handled.ordered.instId = masterId
    /\ <<handled.ordered.identifier, handled.ordered.reqId>>
          \notin DOMAIN requests
    /\ attempts = 4
    /\ Len(ledger) = 1
    /\ clientOut = <<>>

\* C12: the Ordered retry is a suspension point: when processOrdered hands
\* control back with the key of its master Ordered still absent, it has made
\* one attempt and the retries are still to come, so that a REQUEST or
\* PROPAGATE processed next can supply the body to a later retry.
C12_RetryIsSuspensionPoint ==
    (/\ handled.op = "processOrdered"
     /\ handled.ordered.instId = masterId
     /\ <<handled.ordered.identifier, handled.ordered.reqId>>
           \notin DOMAIN requests)
        => attempts <= 1

\* C13: once a master Ordered has been executed and the Reply sent, the key
\* of the request is no longer in the Requests registry.
C13_ExecutedKeyRemoved ==
    (/\ handled.op = "processOrdered"
     /\ handled.ordered.instId = masterId
     /\ clientOut # <<>>)
        => <<handled.ordered.identifier, handled.ordered.reqId>>
              \notin DOMAIN requests

\* the voters recorded for view v (none when the view has no entry)
voters(ic, v) == IF v \in DOMAIN ic THEN ic[v] ELSE {}

C15_ViewChangeNeedsQuorum ==
    [][viewNo' # viewNo
          => /\ handled'.op = "processInstanceChange"
             /\ Cardinality(voters(instanceChanges', handled'.viewNo))
                   >= (2 * f) + 1]_vars

\* with f = 1 the view changed on exactly 3 voters, after a duplicate vote
\* had been received (and its sender blacklisted) without changing the view
C15_Witness ==
    /\ f = 1
    /\ handled.op = "processInstanceChange"
    /\ viewNo = handled.viewNo + 1
    /\ electorOut # <<>>
    /\ Cardinality(voters(instanceChanges, handled.viewNo)) = 3
    /\ nodeBlacklist # {}

\* C16: after every InstanceChange handler and every performance check
\* there is no view v with at least 2f+1 recorded voters and viewNo <= v.
C16_QuorumAdvancesView ==
    \A v \in DOMAIN instanceChanges :
        ~(Cardinality(instanceChanges[v]) >= (2 * f) + 1 /\ viewNo <= v)

\* the handler about to complete is processInstanceChange for a view below
\* the node's viewNo
OldViewInstanceChange ==
    /\ handled'.op = "processInstanceChange"
    /\ handled'.viewNo < viewNo

\* C17: an InstanceChange(v) with v < viewNo is discarded with no effect:
\* votes, viewNo, blacklist and action queue are unchanged, the monitor and
\* the elector are not called, nothing is broadcast, no suspicion is raised.
C17_OldViewDiscarded ==
    [][OldViewInstanceChange
          => /\ instanceChanges' = instanceChanges
             /\ viewNo' = viewNo
             /\ nodeBlacklist' = nodeBlacklist
             /\ actionQueue' = actionQueue
             /\ monitorOut' = <<>>
             /\ electorOut' = <<>>
             /\ nodeOut' = <<>>
             /\ suspicionOut' = <<>>]_vars

\* an InstanceChange for an old view was discarded although the view has
\* recorded votes and none from this sender
C17_Witness ==
    /\ handled.op = "processInstanceChange"
    /\ handled.viewNo < viewNo
    /\ hasView(instanceChanges, handled.viewNo)
    /\ handled.frm \notin instanceChanges[handled.viewNo]

\* the handler about to complete is processInstanceChange for a view v >=
\* viewNo that has no recorded vote
FirstInstanceChange ==
    /\ handled'.op = "processInstanceChange"
    /\ handled'.viewNo >= viewNo
    /\ ~hasView(instanceChanges, handled'.viewNo)

\* C18: the first InstanceChange(v) for a view v >= viewNo is accepted only
\* if the monitor finds the master degraded: if not, no vote is recorded,
\* nothing is broadcast and no suspicion is raised; if so, the sender's vote
\* and the node's own vote are recorded and InstanceChange(v) is broadcast.
C18_FirstVoteNeedsDegraded ==
    [][FirstInstanceChange
          => IF handled'.isMasterDegraded
             THEN /\ instanceChanges' =
                        (handled'.viewNo :> {handled'.frm, name})
                            @@ instanceChanges
                  /\ nodeOut' = <<InstanceChange(handled'.viewNo)>>
             ELSE /\ instanceChanges' = instanceChanges
                  /\ nodeOut' = <<>>
                  /\ suspicionOut' = <<>>
                  /\ nodeBlacklist' = nodeBlacklist]_vars

\* the first InstanceChange for a view above the node's was accepted
C18_Witness ==
    /\ handled.op = "processInstanceChange"
    /\ handled.isMasterDegraded
    /\ handled.viewNo > viewNo
    /\ instanceChanges[handled.viewNo] = {handled.frm, name}
    /\ nodeOut = <<InstanceChange(handled.viewNo)>>

\* the handler about to complete is processInstanceChange for a view in
\* which the sender's vote is already recorded
RepeatedInstanceChange ==
    /\ handled'.op = "processInstanceChange"
    /\ hasInstChngFrom(instanceChanges, handled'.viewNo, handled'.frm)

\* C19 as stated: every InstanceChange(v) from a sender whose vote for v is
\* recorded raises suspicion DUPLICATE_INST_CHNG against the sender and
\* leaves the voters of v and viewNo unchanged.
C19_DuplicateAlwaysSuspected ==
    [][RepeatedInstanceChange
          => /\ suspicionOut' = <<[node |-> handled'.frm,
                                   code |-> DUPLICATE_INST_CHNG]>>
             /\ instanceChanges' = instanceChanges
             /\ viewNo' = viewNo]_vars

\* C19 amended: an InstanceChange(v) with v >= viewNo from a sender whose
\* vote for v is recorded raises suspicion DUPLICATE_INST_CHNG against the
\* sender and leaves the voters of v and viewNo unchanged; with v < viewNo
\* it is discarded without suspicion, votes and viewNo unchanged as well.
C19_DuplicateSuspectedInCurrentView ==
    [][RepeatedInstanceChange
          => /\ suspicionOut' =
                   IF handled'.viewNo >= viewNo
                   THEN <<[node |-> handled'.frm,
                           code |-> DUPLICATE_INST_CHNG]>>
                   ELSE <<>>
             /\ instanceChanges' = instanceChanges
             /\ viewNo' = viewNo
             /\ electorOut' = <<>>]_vars

\* a duplicate was reported in a view that lacks one vote for its quorum
C19_Witness ==
    /\ handled.op = "processInstanceChange"
    /\ handled.viewNo >= viewNo
    /\ suspicionOut = <<[node |-> handled.frm, code |-> DUPLICATE_INST_CHNG]>>
    /\ Cardinality(instanceChanges[handled.viewNo]) = 2 * f

\* C20: a performance check that finds the master degraded broadcasts
\* InstanceChange(viewNo), has the node's name among the voters of viewNo
\* afterwards and returns False; one that does not broadcasts nothing,
\* leaves the votes unchanged and returns True.
C20_PerformanceCheck ==
    [][handled'.op = "checkPerformance"
          => IF handled'.isMasterDegraded
             THEN /\ nodeOut' = <<InstanceChange(viewNo)>>
                  /\ hasInstChngFrom(instanceChanges', viewNo, name)
                  /\ returned' = <<FALSE>>
             ELSE /\ nodeOut' = <<>>
                  /\ instanceChanges' = instanceChanges
                  /\ returned' = <<TRUE>>]_vars

\* after a view change, a performance check found the master degraded and
\* recorded the first vote of the new view
C20_Witness ==
    /\ handled.op = "checkPerformance"
    /\ handled.isMasterDegraded
    /\ viewNo >= 1
    /\ instanceChanges[viewNo] = {name}
    /\ returned = <<FALSE>>

\* C21: whenever the node is started, also after a stop followed by another
\* start, a checkPerformance action is pending in its action queue.
C21_CheckPendingWhileStarted ==
    status = "started"
        => \E i \in 1..Len(actionQueue) : actionQueue[i] = "checkPerformance"

\* C22: a PrePrepare, Prepare or Commit with instId i is appended to the
\* queue of replica i if and only if 0 <= i <= f; for every other integer
\* instId it is discarded and no replica queue changes.
C22_InstIdSelectsReplica ==
    [][handled'.op = "sendToReplica"
          => /\ raised' = None
             /\ msgsToReplicas' =
                   IF 0 <= handled'.msg.instId /\ handled'.msg.instId <= f
                   THEN [msgsToReplicas EXCEPT
                            ![handled'.msg.instId + 1] =
                                Append(@, <<handled'.msg, handled'.frm>>)]
                   ELSE msgsToReplicas]_vars

\* the message has no op tag, an unknown one, or not the fields of its class
Undecodable(msg) ==
    \/ "op" \notin DOMAIN msg
    \/ msg.op \notin DOMAIN TaggedTuples
    \/ DOMAIN msg \ {"op"} # TaggedTuples[msg.op]

\* C23: a Propagate, alone or inside a Batch, whose embedded request fails
\* the client-signature check never reaches the propagate handler: it is
\* never in the node inbox, and its request gets no registry entry, no
\* sender vote, no client binding, no PROPAGATE of the node's own and no
\* digest in a replica queue.
C23_ForgedPropagateNeverHandled ==
    /\ \A i \in 1..Len(nodeInBox) :
           nodeInBox[i][1].op = "PROPAGATE"
               => authenticate(nodeInBox[i][1].request)
    /\ \A k \in DOMAIN requests : authenticate(requests[k].request)
    /\ key(ForgedReq) \notin DOMAIN requests
    /\ ForgedReq.identifier \notin DOMAIN clientIdentifiers
    /\ \A pb \in propagatedBy : pb[2] # reqDigest(ForgedReq)
    /\ \A i \in DOMAIN msgsToReplicas :
           \A j \in 1..Len(msgsToReplicas[i]) :
               msgsToReplicas[i][j] # reqDigest(ForgedReq)

\* a Batch carrying the forged Propagate was taken in from a peer that was
\* not blacklisted, on a node whose registry holds the signed request
C23_Witness ==
    /\ handled.op = "handleOneNodeMsg"
    /\ ~Undecodable(handled.msg)
    /\ handled.msg.op = "BATCH"
    /\ handled.msg.messages[1] = Propagate(ForgedReq, "cli2")
    /\ suspicionOut = <<[node |-> handled.frm, code |-> InvalidSignature]>>
    /\ key(SignedReq) \in DOMAIN requests

\* C24: a node message with a missing op tag, an unknown op tag or fields
\* that do not form the tagged type is dropped without suspicion: nothing
\* is reported, the blacklist, the node inbox, the registry, the votes and
\* the replica queues are unchanged and nothing is sent.
C24_UndecodableDropped ==
    [][(handled'.op = "handleOneNodeMsg" /\ Undecodable(handled'.msg))
          => /\ suspicionOut' = <<>>
             /\ nodeBlacklist' = nodeBlacklist
             /\ nodeInBox' = nodeInBox
             /\ requests' = requests
             /\ instanceChanges' = instanceChanges
             /\ msgsToReplicas' = msgsToReplicas
             /\ nodeOut' = <<>>
             /\ raised' = None]_vars

\* a message with an unknown op tag was dropped although its sender is not
\* blacklisted and validated messages are waiting in the inbox
C24_Witness ==
    /\ handled.op = "handleOneNodeMsg"
    /\ "op" \in DOMAIN handled.msg
    /\ handled.msg.op = "BOGUS"
    /\ handled.frm \notin nodeBlacklist
    /\ nodeInBox # <<>>

\* the members of a Batch handled one after the other as messages of
\* their own from the same sender
RECURSIVE oneByOne(_, _, _)
oneByOne(st, msgs, frm) ==
    IF msgs = <<>> THEN st
    ELSE oneByOne(handleOneNodeMsgBody(st, Head(msgs), frm), Tail(msgs), frm)

\* the handler about to complete takes in a Batch that decodes, from a
\* sender that is not blacklisted
BatchTakenIn ==
    /\ handled'.op = "handleOneNodeMsg"
    /\ ~Undecodable(handled'.msg)
    /\ handled'.msg.op = "BATCH"
    /\ handled'.frm \notin nodeBlacklist

\* C27: taking in a Batch has the effect of taking in its members one
\* after the other as standalone messages of the same sender, each checked
\* against the blacklist as it is at that moment, decoded and signature
\* checked: inbox, blacklist and suspicions are those of the standalone
\* sequence, and what is added to the inbox decodes, is no Batch and has a
\* valid signature.
C27_BatchMembersRevalidated ==
    [][BatchTakenIn
          => LET alone == oneByOne(Cur, handled'.msg.messages, handled'.frm)
             IN /\ nodeInBox' = alone.nodeInBox
                /\ nodeBlacklist' = alone.nodeBlacklist
                /\ suspicionOut' = alone.suspicionOut
                /\ SubSeq(nodeInBox', 1, Len(nodeInBox)) = nodeInBox
                /\ \A i \in (Len(nodeInBox) + 1)..Len(nodeInBox') :
                       /\ nodeInBox'[i][2] = handled'.frm
                       /\ ~Undecodable(nodeInBox'[i][1])
                       /\ nodeInBox'[i][1].op # "BATCH"
                       /\ verifySignature(nodeInBox'[i][1])]_vars

\* a Batch was taken in whose first member reached the inbox and whose
\* second member, the forged Propagate, got the sender reported
C27_Witness ==
    /\ handled.op = "handleOneNodeMsg"
    /\ handled.msg = Batch(<<InstanceChange(0), Propagate(ForgedReq, "cli2")>>)
    /\ nodeInBox # <<>>
    /\ nodeInBox[Len(nodeInBox)] = <<InstanceChange(0), handled.frm>>
    /\ suspicionOut = <<[node |-> handled.frm, code |-> InvalidSignature]>>
    /\ handled.frm \in nodeBlacklist

\* the client message passes every check of the validation but the
\* signature check
SignatureFails(msg) ==
    /\ {"operation", "identifier", "reqId"} \subseteq DOMAIN msg
    /\ DOMAIN msg \subseteq RequestFields
    /\ "type" \in DOMAIN msg.operation
    /\ ~authenticate(msg)

\* the client message is rejected as InvalidClientOp, InvalidClientRequest
\* or InvalidClientMsgType
RejectedAsInvalid(msg) ==
    IF {"operation", "identifier", "reqId"} \subseteq DOMAIN msg
    THEN "type" \notin DOMAIN msg.operation
         \/ ~(DOMAIN msg \subseteq RequestFields)
    ELSE "op" \notin DOMAIN msg \/ msg.op # "BATCH"

\* the handler about to complete takes in a client message that is not a
\* Batch, from a client that is not blacklisted
ClientMsgTakenIn ==
    /\ handled'.op = "handleOneClientMsg"
    /\ handled'.frm \notin clientBlacklist
    /\ (SignatureFails(handled'.msg) \/ RejectedAsInvalid(handled'.msg))

C28_StoppedStoreRefusesReads ==
    (~running /\ got # <<>>) => (\A t \in DOMAIN transactions : transactions[t] # got[1])

Fatal(msg) == "exc" \in DOMAIN msg /\ msg.exc # "SuspiciousNode"
Suspicion(msg) == "exc" \in DOMAIN msg /\ msg.exc = "SuspiciousNode"
Sendable(msg) == "op" \in DOMAIN msg /\ msg.op \in ThreePhaseOps

\* the messages a call with this limit gets to: the first `limit` ones, cut
\* after the first exception that is not a SuspiciousNode
serviced(boxes, limit) ==
    LET p == flat(boxes, 1)
        n == IF limit = 0 THEN Len(p) ELSE Min(limit, Len(p))
        fatalAt == {i \in 1..n : Fatal(p[i])}
        cut == IF fatalAt = {} THEN n
               ELSE CHOOSE i \in fatalAt : \A j \in fatalAt : i <= j
    IN SubSeq(p, 1, cut)

RECURSIVE reports(_)
reports(msgs) ==
    IF msgs = <<>> THEN <<>>
    ELSE (IF Suspicion(Head(msgs))
          THEN <<[node |-> Head(msgs).node, code |-> Head(msgs).code]>>
          ELSE <<>>) \o reports(Tail(msgs))

\* C26: of the exceptions a replica escalates through its outBox a
\* SuspiciousNode is reported (its peer blacklisted when the code is known)
\* and the messages after it are serviced all the same; any other exception
\* is raised out of the call, the messages after it left where they are.
C26_EscalatedExceptions ==
    [][handled'.op = "serviceReplicaOutBox"
          => LET p == flat(replicaOutBox, 1)
                 done == serviced(replicaOutBox, handled'.limit)
             IN /\ suspicionOut' = reports(done)
                /\ nodeBlacklist' = nodeBlacklist \cup
                      {done[i].node : i \in
                          {j \in 1..Len(done) :
                              Suspicion(done[j])
                              /\ done[j].code \in
                                    suspicions \cup {InvalidSignature}}}
                /\ nodeOut' = SelectSeq(done, Sendable)
                /\ raised' = IF done # <<>> /\ Fatal(done[Len(done)])
                             THEN RuntimeError ELSE None
                /\ flat(replicaOutBox', 1) =
                      SubSeq(p, Len(done) + 1, Len(p))]_vars

\* a replica escalated a suspicion of Beta ahead of a PREPARE: Beta is
\* blacklisted and the PREPARE went out in the same call
C26_Witness ==
    /\ handled.op = "serviceReplicaOutBox"
    /\ handled.outBox[1] = <<SuspiciousNode("Beta", DUPLICATE_INST_CHNG),
                             ThreePhase("PREPARE", 0)>>
    /\ suspicionOut = <<[node |-> "Beta", code |-> DUPLICATE_INST_CHNG]>>
    /\ "Beta" \in nodeBlacklist
    /\ nodeOut = <<ThreePhase("PREPARE", 0)>>
    /\ raised = None

\* C30: agreement: if two correct nodes emit Ordered for the same
\* (viewNo, instId, ppSeqNo) the digests agree, with N = 3f + 1 nodes of
\* which at most f are Byzantine, a primary that sends conflicting
\* PRE-PREPAREs included.
C30_Agreement ==
    \A a, b \in nodeReg(totalNodes) \ faulty :
        (emitted[a] # None /\ emitted[b] # None) => emitted[a] = emitted[b]

\* the Byzantine primary sent conflicting PRE-PREPAREs: one correct replica
\* accepted d2, two others accepted d1 and emitted Ordered for it
C30_Witness ==
    /\ faulty = {primaryName}
    /\ \E a, b, c \in nodeReg(totalNodes) \ faulty :
          /\ a # b
          /\ emitted[a] = "d1" /\ emitted[b] = "d1"
          /\ prePrepared[c] = "d2"
          /\ <<c, primaryName>> \in suspected

\* PROPAGATEs of request key k among the broadcasts of the last handler
ownPropagates(out, k) ==
    {j \in 1..Len(out) : out[j].op = "PROPAGATE" /\ key(out[j].request) = k}

\* C31: after a REQUEST or PROPAGATE handler, every request key of the
\* registry has the node's own name among its PROPAGATE senders, and the node
\* has broadcast exactly one PROPAGATE for it: one in the handler that
\* records the key, none in any later handler.
C31_OwnPropagateOnce ==
    [][handled'.op \in {"processRequest", "processPropagate"}
          => \A k \in DOMAIN requests' :
                /\ name \in requests'[k].propagates
                /\ Cardinality(ownPropagates(nodeOut', k)) =
                      IF k \in DOMAIN requests THEN 0 ELSE 1
                /\ Cardinality({d \in {x[2] : x \in {y \in propagatedBy' :
                                                       y[1] = name}} :
                                   keyOfDigest(d) = k}) = 1]_vars

\* the REQUEST was delivered again after the node and two peers had
\* propagated it: nothing is broadcast this time
C31_Witness ==
    /\ handled.op = "processRequest"
    /\ key(handled.request) \in DOMAIN requests
    /\ {name, "Beta", "Gamma"} \subseteq
          requests[key(handled.request)].propagates
    /\ nodeOut = <<>>
    /\ <<name, reqDigest(requests[key(handled.request)].request)>>
          \in propagatedBy

\* C32: liveness of forwarding: with the REQUEST delivered to a correct node
\* and every PROPAGATE between correct nodes eventually delivered, in any
\* order relative to the REQUEST, every correct node eventually forwards
\* the request to its replicas, whatever the size of the pool.
C32_EventuallyForwarded ==
    \A request \in FwdReqs :
        <>(/\ key(request) \in DOMAIN requests
           /\ requests[key(request)].forwarded)

\* the handler about to complete executes a master Ordered: the ledger
\* grows by the record of the request
MasterOrderedExecuted ==
    /\ handled'.op = "processOrdered"
    /\ handled'.ordered.instId = masterId
    /\ Len(ledger') = Len(ledger) + 1

\* C33: the request body a node executes and records for a master Ordered
\* has the digest of the Ordered, also when bodies with different digests
\* were received under the same (identifier, reqId).
C33_ExecutedBodyHasOrderedDigest ==
    [][MasterOrderedExecuted
          => \E r \in ReqSet :
                /\ reqDigest(r) = handled'.ordered.digest
                /\ key(r) = <<handled'.ordered.identifier,
                              handled'.ordered.reqId>>
                /\ requests[key(r)].request = r
                /\ ledger'[Len(ledger')].txnType = r.operation.type]_vars

\* C34: in a pool where every node is correct and every message sent is
\* delivered once, no node raises a DUPLICATE_INST_CHNG suspicion against
\* another node or blacklists it, also when a node finds the master degraded
\* at several successive checks in the same view.
C34_NoSuspicionAmongCorrect ==
    /\ nodeBlacklist = {}
    /\ \A i \in 1..Len(suspicionOut) :
          suspicionOut[i].code # DUPLICATE_INST_CHNG

\* C35: the txnId computed by generateReply is injective in the request key:
\* two requests with different (identifier, reqId) never get the same
\* txnId (SHA-256 taken as injective on its input string).
C35_TxnIdInjective ==
    \A i, j \in 1..Len(ledger) :
        ledger[i].txnId = ledger[j].txnId => sameKey(ledger[i], ledger[j])

\* C36: an Ordered is reported to the monitor (requestOrdered) exactly once,
\* from the master or a backup instance, with the request body in the
\* registry or not.
C36_ReportedOnce ==
    [][handled'.op = "processOrdered"
          => Cardinality({i \in 1..Len(monitorOut') :
                             monitorOut'[i].call = "requestOrdered"}) = 1]_vars

\* C37: every view with a recorded InstanceChange vote has the node's own
\* name among its voters; the node's own vote is recorded only by a handler
\* in which the monitor found the master degraded; and a view change for v
\* happens only with the own vote for v already recorded and 2f peers
\* voting with it, so f Byzantine peers alone cannot cause one.
C37_OwnVoteInEveryView ==
    [][/\ \A v \in DOMAIN instanceChanges' : name \in instanceChanges'[v]
       /\ \A v \in DOMAIN instanceChanges' :
             name \notin voters(instanceChanges, v)
                => /\ handled'.op \in {"processInstanceChange",
                                       "checkPerformance"}
                   /\ handled'.isMasterDegraded
       /\ viewNo' # viewNo
             => /\ name \in voters(instanceChanges, handled'.viewNo)
                /\ Cardinality(voters(instanceChanges', handled'.viewNo)
                                  \ {name}) >= 2 * f]_vars

\* with f = 1 the node changed view on its own vote and those of two peers,
\* having blacklisted nobody
C37_Witness ==
    /\ f = 1
    /\ handled.op = "processInstanceChange"
    /\ viewNo = handled.viewNo + 1
    /\ name \in voters(instanceChanges, handled.viewNo)
    /\ Cardinality(voters(instanceChanges, handled.viewNo) \ {name}) = 2
    /\ nodeBlacklist = {}

\* C38: every request key of the registry has its identifier bound in
\* clientIdentifiers; a binding once made is never changed; executing a
\* registered request finds a destination for the Reply; and the request a
\* client sent to this node itself has that client as the destination of
\* its Reply (doCustomAction sends the Reply to the binding of the
\* identifier).
C38_ReplyGoesToRequester ==
    [][/\ \A k \in DOMAIN requests' : k[1] \in DOMAIN clientIdentifiers'
       /\ \A id \in DOMAIN clientIdentifiers :
             /\ id \in DOMAIN clientIdentifiers'
             /\ clientIdentifiers'[id] = clientIdentifiers[id]
       /\ raised' # KeyError
       /\ (handled'.op = "processOrdered" /\ Len(ledger') > Len(ledger))
             => /\ Len(clientOut') = 1
                /\ clientOut'[1].to =
                      clientIdentifiers[handled'.ordered.identifier]
       /\ (handled'.op = "processRequest"
           /\ key(handled'.request) \in DOMAIN requests')
             => clientIdentifiers'[handled'.request.identifier]
                   = handled'.frm]_vars

\* C39: every message received from a blacklisted peer or client is
\* discarded at validation: it does not enter the node inbox or the client
\* inbox and changes no registry, vote or replica queue, and a client gets
\* neither RequestAck nor RequestNack; this holds from the moment of the
\* blacklisting, the later members of the same Batch included.
C39_BlacklistedDiscarded ==
    [][/\ (handled'.op = "handleOneNodeMsg"
           /\ (handled'.frm \in nodeBlacklist \/ handled'.msg = ForgedBatch))
             => /\ nodeInBox' = nodeInBox
                /\ requests' = requests
                /\ clientIdentifiers' = clientIdentifiers
                /\ instanceChanges' = instanceChanges
                /\ msgsToReplicas' = msgsToReplicas
                /\ viewNo' = viewNo
                /\ nodeOut' = <<>>
       /\ (handled'.op = "handleOneNodeMsg" /\ handled'.frm \in nodeBlacklist)
             => /\ suspicionOut' = <<>>
                /\ nodeBlacklist' = nodeBlacklist
       /\ (handled'.op = "handleOneClientMsg"
           /\ handled'.frm \in clientBlacklist)
             => /\ clientInBox' = clientInBox
                /\ requests' = requests
                /\ clientIdentifiers' = clientIdentifiers
                /\ msgsToReplicas' = msgsToReplicas
                /\ clientBlacklist' = clientBlacklist
                /\ clientOut' = <<>>
                /\ nodeOut' = <<>>]_vars

\* a blacklisted peer sent a properly signed Propagate, which was dropped,
\* on a node that has a blacklisted client too
C39_Witness ==
    /\ handled.op = "handleOneNodeMsg"
    /\ handled.msg = Propagate(SignedReq, "cli1")
    /\ handled.frm \in nodeBlacklist
    /\ key(SignedReq) \notin DOMAIN requests
    /\ nodeInBox = <<>>
    /\ clientBlacklist # {}

\* C40: after any sequence of reset, addToProcessedTxns and append (with or
\* without a txnId), every txnId that processedRequests refers to is a key
\* of transactions; get never fails: for a recorded (identifier, reqId) it
\* returns the Reply stored under the pair's txnId, for any other pair
\* None; and an append without a txnId makes no pair visible to get.
inStore(identifier, reqId) ==
    /\ identifier \in DOMAIN processedRequests
    /\ reqId \in DOMAIN processedRequests[identifier]

C40_GetNeverFails ==
    [][/\ \A identifier \in DOMAIN processedRequests' :
             \A reqId \in DOMAIN processedRequests'[identifier] :
                 processedRequests'[identifier][reqId] \in DOMAIN transactions'
       /\ called'.op = "get" =>
             /\ got' # <<[op |-> KeyError]>>
             /\ got' = IF inStore(called'.identifier, called'.reqId)
                       THEN <<transactions[processedRequests
                                  [called'.identifier][called'.reqId]]>>
                       ELSE <<NoResult>>
             /\ inStore(called'.identifier, called'.reqId)
                   => got'[1] \in StoreReplies
       /\ (called'.op = "append" /\ called'.txnId = NoTxnId) =>
             \A r \in StoreReqSet :
                 /\ inStore(r.identifier, r.reqId)'
                       = inStore(r.identifier, r.reqId)
                 /\ get(r.identifier, r.reqId)' = get(r.identifier, r.reqId)]_vars

\* after a reset and an append without a txnId, get of that pair gave None
\* while another pair, recorded since the reset, is in the store
C40_Witness ==
    /\ called = [op |-> "get", identifier |-> IdA, reqId |-> 11]
    /\ got = <<NoResult>>
    /\ IdA \in DOMAIN responses
    /\ inStore(IdA1, 1)
    /\ ~inStore(IdA, 11)
    /\ firstAppended = <<>>

====
